---- MODULE Spec2Model ----
(***************************************************************************)
(* Model of the dranet node driver (pkg/driver, pkg/inventory): the claim  *)
(* store, the pod-netns map, the NRI pod-sandbox hooks, the DRA prepare /  *)
(* unprepare calls and the kernel link tables they act on.                 *)
(*                                                                         *)
(* Strings that the code builds with fmt.Sprintf("%s/%s", ...) or compares *)
(* with such strings are modelled as token sequences, so that              *)
(* "ns" and "ns/name" are different values: Str("ns") = <<"ns">> and       *)
(* Sprintf2("ns","name") = <<"ns","/","name">>.                            *)
(***************************************************************************)
EXTENDS Integers, Sequences, FiniteSets, TLC

VARIABLES
    claimAllocations,  \* NetworkDriver.claimAllocations: key -> claim
    netNsForPod,       \* inventory.DB.netNsForPod: pod key -> netns path
    podConfigStore,    \* pod UID -> interface name -> PodConfig
    links,             \* kernel: namespace -> net links in it
    rdmaLinks,         \* kernel: namespace -> RDMA links in it
    nsExists,          \* kernel: netns paths that can be opened
    crashed,           \* the process died on a panic
    lastOp,            \* the last call and what it returned
    pci,               \* a PCI address being normalized and de-normalized
    vcfg,              \* an opaque config being validated
    net,               \* the routes of an interface in a pod namespace
    inv,               \* inventory.DB and its refresh loop
    metrics,           \* the Prometheus collectors of pkg/driver/metrics.go
    pub,               \* NetworkDriver.PublishResources and the DRA plugin helper
    thr,               \* the OS thread that runs a namespace routine
    plugin             \* the NetworkDriver that Start builds, and its goroutines

driverVars == <<claimAllocations, netNsForPod, podConfigStore, links,
                rdmaLinks, nsExists, crashed, lastOp, metrics>>
auxVars == <<pci, vcfg, net, inv, pub, thr, plugin>>
vars == <<claimAllocations, netNsForPod, podConfigStore, links, rdmaLinks,
          nsExists, crashed, lastOp, metrics, pci, vcfg, net, inv, pub, thr,
          plugin>>

----------------------------------------------------------------------------
(* Bounds *)

MaxBatch == 2
MaxSyncPods == 2

----------------------------------------------------------------------------
(* Strings *)

Str(s) == <<s>>
Sprintf2(a, b) == <<a, "/", b>>
NilErr == "nil"

----------------------------------------------------------------------------
(* The node: driver name, kernel namespaces, devices *)

DriverName == "dra.net"
OtherDriver == "other.example.com"

Root == "root"
NsPaths == {"netns1", "netns2"}
AllNs == {Root} \cup NsPaths

\* net interfaces of the host; "ethX" is a name no interface has
Devices == {"eth1", "eth2", "eth3"}
UnknownDevice == "ethX"
\* RDMA link associated with a net interface ("" when there is none)
RdmaOf == [d \in Devices |-> IF d = "eth1" THEN "mlx5_1"
                              ELSE IF d = "eth3" THEN "mlx5_3" ELSE ""]
RdmaDevices == {RdmaOf[d] : d \in Devices} \ {""}

----------------------------------------------------------------------------
(* Pods delivered by the runtime (api.PodSandbox) *)

Pod1 == [uid |-> "pod-uid-1", namespace |-> "test-ns", name |-> "pod1",
         namespaces |-> <<[type |-> "ipc", path |-> "ipc1"],
                          [type |-> "network", path |-> "netns1"]>>]
Pod2 == [uid |-> "pod-uid-2", namespace |-> "test-ns", name |-> "pod2",
         namespaces |-> <<[type |-> "network", path |-> "netns2"]>>]
\* a host-network pod: no namespace of type "network"
PodHost == [uid |-> "pod-uid-host", namespace |-> "test-ns", name |-> "pod-host",
            namespaces |-> <<[type |-> "ipc", path |-> "ipc3"]>>]
Pods == {Pod1, Pod2, PodHost}
PodUIDs == {p.uid : p \in Pods}

----------------------------------------------------------------------------
(* Resource claims the kubelet can hand to the driver *)

PodRef(uid) == [resource |-> "pods", apiGroup |-> "", uid |-> uid]
Result(drv, dev, req) == [driver |-> drv, device |-> dev, request |-> req,
                          pool |-> "node1"]
Opaque(drv, params) == [opaqueNil |-> FALSE, driver |-> drv,
                        parameters |-> params, requests |-> <<>>]
NilAllocation == [isNil |-> TRUE, results |-> <<>>, config |-> <<>>]
Allocation(results, config) == [isNil |-> FALSE, results |-> results,
                                config |-> config]

\* reserved for Pod1 and the host-network pod; an RDMA NIC and a plain NIC
ClaimA == [namespace |-> "test-ns", name |-> "claim-a", uid |-> "claim-uid-a",
           reservedFor |-> <<PodRef("pod-uid-1"), PodRef("pod-uid-host")>>,
           allocation |-> Allocation(<<Result(DriverName, "eth1", "r1"),
                                       Result(DriverName, "eth2", "r2")>>,
                                     <<Opaque(DriverName, "valid")>>)]
\* reserved for Pod2 and for a non-pod consumer; names a device of another
\* driver, a device that does not exist, and carries an unknown config field
ClaimB == [namespace |-> "test-ns", name |-> "claim-b", uid |-> "claim-uid-b",
           reservedFor |-> <<PodRef("pod-uid-2"),
                             [resource |-> "deployments", apiGroup |-> "apps",
                              uid |-> "pod-uid-1"]>>,
           allocation |-> Allocation(<<Result(OtherDriver, "eth1", "r0"),
                                       Result(DriverName, "eth2", "r1"),
                                       Result(DriverName, UnknownDevice, "r2"),
                                       Result(DriverName, "eth3", "r3")>>,
                                     <<Opaque(DriverName, "unknown-field")>>)]
\* reserved for Pod2; one RDMA NIC
ClaimC == [namespace |-> "test-ns", name |-> "claim-c", uid |-> "claim-uid-c",
           reservedFor |-> <<PodRef("pod-uid-2")>>,
           allocation |-> Allocation(<<Result(DriverName, "eth3", "r1")>>, <<>>)]
\* not allocated
ClaimD == [namespace |-> "other-ns", name |-> "claim-d", uid |-> "claim-uid-d",
           reservedFor |-> <<PodRef("pod-uid-1")>>,
           allocation |-> NilAllocation]
Claims == {ClaimA, ClaimB, ClaimC, ClaimD}

\* kubeletplugin.NamespacedObject of a claim
NamespacedObject(c) == [namespace |-> c.namespace, name |-> c.name, uid |-> c.uid]

----------------------------------------------------------------------------
(* Helpers *)

Range(f) == {f[x] : x \in DOMAIN f}
SeqsOfLen(S, n) == [1..n -> S]
\* the orders in which a set can be listed
Orders(S) == {s \in SeqsOfLen(S, Cardinality(S)) :
                 \A i, j \in 1..Cardinality(S) : i # j => s[i] # s[j]}
\* the lists of at most n distinct elements of S
Lists(S, n) == UNION {Orders(T) : T \in {U \in SUBSET S : Cardinality(U) <= n}}

----------------------------------------------------------------------------
(* The claim store: cache.NewIndexer(MetaNamespaceKeyFunc,                  *)
(*   {NamespaceIndex: MetaNamespaceIndexFunc, podUIDIndex: podUIDIndexFunc}) *)

NamespaceIndex == "namespace"
podUIDIndex == "podUID"

\* cache.MetaNamespaceKeyFunc: "<namespace>/<name>", or "<name>" alone
MetaNamespaceKeyFunc(obj) ==
    IF obj.namespace # "" THEN Sprintf2(obj.namespace, obj.name)
    ELSE Str(obj.name)

\* cache.MetaNamespaceIndexFunc: the object's namespace
MetaNamespaceIndexFunc(obj) == {Str(obj.namespace)}

\* variant: every consumer of the claim is indexed
podUIDIndexFunc_AnyConsumer(obj) ==
    {Str(obj.reservedFor[i].uid) : i \in 1..Len(obj.reservedFor)}

\* the UIDs of the pods the claim is reserved for
podUIDIndexFunc(obj) ==
    {Str(obj.reservedFor[i].uid) : i \in
        {j \in 1..Len(obj.reservedFor) :
            ~(obj.reservedFor[j].resource # "pods"
              \/ obj.reservedFor[j].apiGroup # "")}}

IndexValues(indexName, obj) ==
    IF indexName = NamespaceIndex THEN MetaNamespaceIndexFunc(obj)
    ELSE podUIDIndexFunc(obj)

EmptyStore == [k \in {} |-> ClaimA]

\* Indexer.Add: insert or replace under the object's key
StoreAdd(store, obj) ==
    LET key == MetaNamespaceKeyFunc(obj)
    IN  [k \in DOMAIN store \cup {key} |-> IF k = key THEN obj ELSE store[k]]

\* Indexer.Delete: remove the object's key
StoreDelete(store, obj) ==
    LET key == MetaNamespaceKeyFunc(obj)
    IN  [k \in DOMAIN store \ {key} |-> store[k]]

\* Indexer.ByIndex: the stored objects whose index values contain the value
ByIndex(store, indexName, indexedValue) ==
    {obj \in Range(store) : indexedValue \in IndexValues(indexName, obj)}

----------------------------------------------------------------------------
(* Pod accessors *)

\* the path of the first linux namespace of type "network", "" when none
RECURSIVE FirstNetworkNs(_)
FirstNetworkNs(namespaces) ==
    IF namespaces = <<>> THEN ""
    ELSE IF Head(namespaces).type = "network" THEN Head(namespaces).path
    ELSE FirstNetworkNs(Tail(namespaces))

\* variant: takes the first namespace whatever its type
getNetworkNamespace_AnyType(pod) ==
    IF pod.namespaces = <<>> THEN "" ELSE Head(pod.namespaces).path

getNetworkNamespace(pod) == FirstNetworkNs(pod.namespaces)

podKey(pod) == Sprintf2(pod.namespace, pod.name)
PodKeys == {podKey(p) : p \in Pods}

----------------------------------------------------------------------------
(* inventory.DB pod-netns map *)

NoEntry == "<absent>"

\* the entry is stored only if the namespace path can be opened
AddPodNetNs(m, pod, netNsPath) ==
    IF netNsPath \notin nsExists THEN m
    ELSE [m EXCEPT ![pod] = netNsPath]

RemovePodNetNs(m, pod) == [m EXCEPT ![pod] = NoEntry]

----------------------------------------------------------------------------
(* Pod-config store: pod UID -> interface name -> PodConfig *)

ConfigPodUIDs == {"pod-uid-host"}
ConfigIfaces == {"eth1"}
PodConfigs == {[Claim |-> [namespace |-> c.namespace, name |-> c.name]] :
                  c \in {ClaimA}}
EmptyConfigs == [u \in {} |-> [i \in {} |-> 0]]

PodConfigStoreSet(store, uid, iface, cfg) ==
    LET old == IF uid \in DOMAIN store THEN store[uid] ELSE [i \in {} |-> cfg]
        new == [i \in DOMAIN old \cup {iface} |-> IF i = iface THEN cfg ELSE old[i]]
    IN  [u \in DOMAIN store \cup {uid} |-> IF u = uid THEN new ELSE store[u]]

----------------------------------------------------------------------------
(* Kernel operations.  K = [links, rdma]: the link tables per namespace.    *)

Kernel == [links |-> links, rdma |-> rdmaLinks]

MoveLink(table, name, from, to) ==
    [n \in DOMAIN table |->
        IF n = from /\ n = to THEN table[n]
        ELSE IF n = from THEN table[n] \ {name}
        ELSE IF n = to THEN table[n] \cup {name}
        ELSE table[n]]

\* rdmamap.GetRdmaDeviceForNetdevice: the RDMA device whose sysfs entry
\* lists the net device; sysfs shows only net devices of the host namespace
GetRdmaDeviceForNetdevice(K, netdev) ==
    IF netdev \in Devices /\ netdev \in K.links[Root] THEN RdmaOf[netdev] ELSE ""

nsAttachRdmadev(K, hostIfName, containerNsPAth) ==
    IF containerNsPAth \notin nsExists
    THEN [err |-> "could not get network namespace from path", K |-> K]
    ELSE IF hostIfName \notin K.rdma[Root]
    THEN [err |-> "rdma link not found", K |-> K]
    ELSE [err |-> NilErr,
          K |-> [K EXCEPT !.rdma = MoveLink(@, hostIfName, Root, containerNsPAth)]]

nsDetachRdmadev(K, containerNsPAth, ifName) ==
    IF containerNsPAth \notin nsExists
    THEN [err |-> "could not get network namespace from path", K |-> K]
    ELSE IF ifName \notin K.rdma[containerNsPAth]
    THEN [err |-> "failed to find", K |-> K]
    ELSE [err |-> NilErr,
          K |-> [K EXCEPT !.rdma = MoveLink(@, ifName, containerNsPAth, Root)]]

\* Attach, steps 1 and 3: open the target namespace, then move the net link
\* out of the root namespace (ifName is the name inside the pod)
nsAttachNetdev(K, hostIfName, containerNsPAth, ifName) ==
    IF containerNsPAth \notin nsExists
    THEN [err |-> "could not get network namespace from path", K |-> K]
    ELSE IF hostIfName \notin K.links[Root]
    THEN [err |-> "link not found", K |-> K]
    ELSE [err |-> NilErr,
          K |-> [K EXCEPT !.links = MoveLink(@, hostIfName, Root, containerNsPAth)]]

\* Detach of the net link: a missing namespace path or a link that is no
\* longer in the pod namespace counts as already detached
nsDetachNetdev(K, containerNsPAth, devName) ==
    IF containerNsPAth \notin nsExists THEN [err |-> NilErr, K |-> K]
    ELSE IF devName \notin K.links[containerNsPAth] THEN [err |-> NilErr, K |-> K]
    ELSE [err |-> NilErr,
          K |-> [K EXCEPT !.links = MoveLink(@, devName, containerNsPAth, Root)]]

----------------------------------------------------------------------------
(* What a call returned.  attempted: the devices the handler tried to move, *)
(* in order; moved: the devices it did move; batch/result: the argument and *)
(* the result map of a DRA call (resultNil: the map itself was nil).        *)

NoResult == [u \in {} |-> 0]

OpRec(op, pod, err, attempted, moved, batch, result, resultNil) ==
    [op |-> op, pod |-> pod, err |-> err, attempted |-> attempted,
     moved |-> moved, batch |-> batch, result |-> result,
     resultNil |-> resultNil]

HookRec(op, pod, err, attempted, moved) ==
    OpRec(op, pod, err, attempted, moved, <<>>, NoResult, TRUE)

----------------------------------------------------------------------------
(* NRI hooks *)

\* the allocation results of this driver, claim by claim, in loop order
RECURSIVE DriverResults(_)
DriverResults(objs) ==
    IF objs = <<>> THEN <<>>
    ELSE LET claim == Head(objs)
             own(r) == r.driver = DriverName
         IN  (IF claim.allocation.isNil THEN <<>>
              ELSE SelectSeq(claim.allocation.results, own))
             \o DriverResults(Tail(objs))

RECURSIVE SynchronizePods(_, _)
SynchronizePods(m, pods) ==
    IF pods = <<>> THEN m
    ELSE LET pod == Head(pods)
             ns == getNetworkNamespace(pod)
         IN  SynchronizePods(IF ns # "" THEN AddPodNetNs(m, podKey(pod), ns) ELSE m,
                             Tail(pods))

\* the attach loop of RunPodSandbox over the driver's results
RECURSIVE RunPodSandboxLoop(_, _, _, _, _)
RunPodSandboxLoop(results, ns, K, attempted, moved) ==
    IF results = <<>>
    THEN [err |-> NilErr, K |-> K, attempted |-> attempted, moved |-> moved]
    ELSE LET result == Head(results)
             rdmaDev == GetRdmaDeviceForNetdevice(K, result.device)
             ra == IF rdmaDev # "" THEN nsAttachRdmadev(K, rdmaDev, ns)
                   ELSE [err |-> NilErr, K |-> K]
             tried == Append(attempted, result.device)
         IN  IF ra.err # NilErr
             THEN \* logged; continue with the next result
                  RunPodSandboxLoop(Tail(results), ns, ra.K, tried, moved)
             ELSE LET na == nsAttachNetdev(ra.K, result.device, ns, result.device)
                  IN  IF na.err # NilErr
                      THEN [err |-> na.err, K |-> na.K, attempted |-> tried,
                            moved |-> moved]
                      ELSE RunPodSandboxLoop(Tail(results), ns, na.K, tried,
                                             moved \cup {result.device})

\* RunPodSandbox for the claims objs (listed in the indexer's order)
RunPodSandboxImpl(pod, objs) ==
    LET ns == getNetworkNamespace(pod)
        noop == [err |-> NilErr, K |-> Kernel, netns |-> netNsForPod,
                 attempted |-> <<>>, moved |-> {}]
    IN  IF Len(objs) = 0 THEN noop
        ELSE IF ns = "" THEN noop
        ELSE LET r == RunPodSandboxLoop(DriverResults(objs), ns, Kernel, <<>>, {})
             IN  [err |-> r.err, K |-> r.K,
                  netns |-> AddPodNetNs(netNsForPod, podKey(pod), ns),
                  attempted |-> r.attempted, moved |-> r.moved]

\* variant: returns after the first result instead of continuing
StopPodSandboxLoop_FirstOnly(results, ns, K, attempted, moved) ==
    IF results = <<>>
    THEN [err |-> NilErr, K |-> K, attempted |-> attempted, moved |-> moved]
    ELSE LET result == Head(results)
             d == nsDetachNetdev(K, ns, result.device)
         IN  [err |-> NilErr, K |-> d.K,
              attempted |-> Append(attempted, result.device),
              moved |-> IF d.K # K THEN moved \cup {result.device} ELSE moved]

\* the detach loop of StopPodSandbox: an error is logged and skipped
RECURSIVE StopPodSandboxLoop(_, _, _, _, _)
StopPodSandboxLoop(results, ns, K, attempted, moved) ==
    IF results = <<>>
    THEN [err |-> NilErr, K |-> K, attempted |-> attempted, moved |-> moved]
    ELSE LET result == Head(results)
             d == nsDetachNetdev(K, ns, result.device)
         IN  StopPodSandboxLoop(Tail(results), ns, d.K,
                                Append(attempted, result.device),
                                IF d.K # K THEN moved \cup {result.device}
                                ELSE moved)

\* variant: the entry is removed only when the detach loop has run
StopPodSandboxImpl_RemoveAfterLoop(pod, objs) ==
    LET ns == getNetworkNamespace(pod)
        noop == [err |-> NilErr, K |-> Kernel, netns |-> netNsForPod,
                 attempted |-> <<>>, moved |-> {}]
    IN  IF Len(objs) = 0 THEN noop
        ELSE IF ns = "" THEN noop
        ELSE LET r == StopPodSandboxLoop(DriverResults(objs), ns, Kernel, <<>>, {})
             IN  [err |-> r.err, K |-> r.K,
                  netns |-> RemovePodNetNs(netNsForPod, podKey(pod)),
                  attempted |-> r.attempted, moved |-> r.moved]

\* StopPodSandbox; the deferred RemovePodNetns runs on every return
StopPodSandboxImpl(pod, objs) ==
    LET ns == getNetworkNamespace(pod)
        removed == RemovePodNetNs(netNsForPod, podKey(pod))
        noop == [err |-> NilErr, K |-> Kernel, netns |-> removed,
                 attempted |-> <<>>, moved |-> {}]
    IN  IF Len(objs) = 0 THEN noop
        ELSE IF ns = "" THEN noop
        ELSE LET r == StopPodSandboxLoop(DriverResults(objs), ns, Kernel, <<>>, {})
             IN  [err |-> r.err, K |-> r.K, netns |-> removed,
                  attempted |-> r.attempted, moved |-> r.moved]

RemovePodSandboxImpl(pod) ==
    LET ns == getNetworkNamespace(pod)
    IN  IF ns = "" THEN NilErr ELSE NilErr

Synchronize(pods) ==
    /\ ~crashed
    /\ netNsForPod' = SynchronizePods(netNsForPod, pods)
    /\ lastOp' = OpRec("Synchronize", "-", NilErr, <<>>, {}, pods, NoResult, TRUE)
    /\ UNCHANGED auxVars
    /\ UNCHANGED metrics
    /\ UNCHANGED <<claimAllocations, podConfigStore, links, rdmaLinks,
                   nsExists, crashed>>

RunPodSandbox(pod) ==
    /\ ~crashed
    /\ \E objs \in Orders(ByIndex(claimAllocations, podUIDIndex, Str(pod.uid))) :
         LET r == RunPodSandboxImpl(pod, objs)
         IN  /\ links' = r.K.links
             /\ rdmaLinks' = r.K.rdma
             /\ netNsForPod' = r.netns
             /\ lastOp' = HookRec("RunPodSandbox", pod.uid, r.err,
                                  r.attempted, r.moved)
    /\ UNCHANGED auxVars
    /\ UNCHANGED metrics
    /\ UNCHANGED <<claimAllocations, podConfigStore, nsExists, crashed>>

StopPodSandbox(pod) ==
    /\ ~crashed
    /\ \E objs \in Orders(ByIndex(claimAllocations, podUIDIndex, Str(pod.uid))) :
         LET r == StopPodSandboxImpl(pod, objs)
         IN  /\ links' = r.K.links
             /\ rdmaLinks' = r.K.rdma
             /\ netNsForPod' = r.netns
             /\ lastOp' = HookRec("StopPodSandbox", pod.uid, r.err,
                                  r.attempted, r.moved)
    /\ UNCHANGED auxVars
    /\ UNCHANGED metrics
    /\ UNCHANGED <<claimAllocations, podConfigStore, nsExists, crashed>>

RemovePodSandbox(pod) ==
    /\ ~crashed
    /\ lastOp' = HookRec("RemovePodSandbox", pod.uid, RemovePodSandboxImpl(pod),
                         <<>>, {})
    /\ UNCHANGED auxVars
    /\ UNCHANGED metrics
    /\ UNCHANGED <<claimAllocations, netNsForPod, podConfigStore, links,
                   rdmaLinks, nsExists, crashed>>

----------------------------------------------------------------------------
(* DRA calls *)

\* kubeletplugin.Device of an allocation result
PreparedDevice(result) ==
    [Requests |-> <<result.request>>, PoolName |-> result.pool,
     DeviceName |-> result.device]

\* prepareResourceClaim: the claim is added to the store first; reading the
\* results of a claim without allocation dereferences nil (panicked)
prepareResourceClaim(store, claim) ==
    LET added == StoreAdd(store, claim)
    IN  IF claim.allocation.isNil
        THEN [store |-> added, panicked |-> TRUE,
              res |-> [Err |-> NilErr, Devices |-> <<>>]]
        ELSE [store |-> added, panicked |-> FALSE,
              res |-> [Err |-> NilErr,
                       Devices |-> [i \in 1..Len(claim.allocation.results) |->
                                      PreparedDevice(claim.allocation.results[i])]]]

SetResult(result, uid, v) ==
    [u \in DOMAIN result \cup {uid} |-> IF u = uid THEN v ELSE result[u]]

RECURSIVE PrepareLoop(_, _, _)
PrepareLoop(claims, store, result) ==
    IF claims = <<>>
    THEN [store |-> store, result |-> result, panicked |-> FALSE]
    ELSE LET r == prepareResourceClaim(store, Head(claims))
         IN  IF r.panicked
             THEN [store |-> r.store, result |-> result, panicked |-> TRUE]
             ELSE PrepareLoop(Tail(claims), r.store,
                              SetResult(result, Head(claims).uid, r.res))

\* PrepareResourceClaims: (nil, nil) for an empty batch
PrepareResourceClaimsImpl(claims) ==
    IF Len(claims) = 0
    THEN [store |-> claimAllocations, result |-> NoResult, resultNil |-> TRUE,
          err |-> NilErr, panicked |-> FALSE]
    ELSE LET r == PrepareLoop(claims, claimAllocations, NoResult)
         IN  [store |-> r.store, result |-> r.result, resultNil |-> FALSE,
              err |-> IF r.panicked THEN "panic" ELSE NilErr,
              panicked |-> r.panicked]

\* the deferred Delete of every object found
RECURSIVE DeleteAll(_, _)
DeleteAll(store, objs) ==
    IF objs = {} THEN store
    ELSE LET obj == CHOOSE o \in objs : TRUE
         IN  DeleteAll(StoreDelete(store, obj), objs \ {obj})

\* unprepareResourceClaim reporting a claim it does not find as an error
unprepareResourceClaim_NotFoundErr(store, claim) ==
    LET objs == ByIndex(store, NamespaceIndex,
                        Sprintf2(claim.namespace, claim.name))
    IN  IF objs = {} THEN [store |-> store, err |-> "claim not found"]
        ELSE [store |-> DeleteAll(store, objs), err |-> NilErr]

\* unprepareResourceClaim: looks the claim up in the namespace index under
\* "<namespace>/<name>" and deletes what it finds
unprepareResourceClaim(store, claim) ==
    LET objs == ByIndex(store, NamespaceIndex,
                        Sprintf2(claim.namespace, claim.name))
    IN  IF objs = {} THEN [store |-> store, err |-> NilErr]
        ELSE [store |-> DeleteAll(store, objs), err |-> NilErr]

RECURSIVE UnprepareLoop(_, _, _)
UnprepareLoop(claims, store, result) ==
    IF claims = <<>> THEN [store |-> store, result |-> result]
    ELSE LET r == unprepareResourceClaim(store, Head(claims))
         IN  UnprepareLoop(Tail(claims), r.store,
                           SetResult(result, Head(claims).uid, r.err))

UnprepareResourceClaimsImpl(claims) ==
    IF Len(claims) = 0
    THEN [store |-> claimAllocations, result |-> NoResult, resultNil |-> TRUE,
          err |-> NilErr]
    ELSE LET r == UnprepareLoop(claims, claimAllocations, NoResult)
         IN  [store |-> r.store, result |-> r.result, resultNil |-> FALSE,
              err |-> NilErr]

PrepareResourceClaims(claims) ==
    /\ ~crashed
    /\ LET r == PrepareResourceClaimsImpl(claims)
       IN  /\ claimAllocations' = r.store
           /\ crashed' = r.panicked
           /\ lastOp' = OpRec("PrepareResourceClaims", "-", r.err, <<>>, {},
                              claims, r.result, r.resultNil)
    /\ UNCHANGED auxVars
    /\ UNCHANGED metrics
    /\ UNCHANGED <<netNsForPod, podConfigStore, links, rdmaLinks, nsExists>>

UnprepareResourceClaims(claims) ==
    /\ ~crashed
    /\ LET r == UnprepareResourceClaimsImpl(claims)
       IN  /\ claimAllocations' = r.store
           /\ lastOp' = OpRec("UnprepareResourceClaims", "-", r.err, <<>>, {},
                              claims, r.result, r.resultNil)
    /\ UNCHANGED auxVars
    /\ UNCHANGED metrics
    /\ UNCHANGED <<netNsForPod, podConfigStore, links, rdmaLinks, nsExists,
                   crashed>>

----------------------------------------------------------------------------
(* Direct use of the pod-config store, and the runtime removing a netns *)

PodConfigSet(uid, iface, cfg) ==
    /\ ~crashed
    /\ podConfigStore' = PodConfigStoreSet(podConfigStore, uid, iface, cfg)
    /\ lastOp' = HookRec("PodConfigStore.Set", uid, NilErr, <<>>, {})
    /\ UNCHANGED auxVars
    /\ UNCHANGED metrics
    /\ UNCHANGED <<claimAllocations, netNsForPod, links, rdmaLinks, nsExists,
                   crashed>>

\* the kernel returns the physical links of a deleted namespace to the root
NetnsDelete(ns) ==
    /\ ~crashed
    /\ ns \in nsExists
    /\ nsExists' = nsExists \ {ns}
    /\ links' = [n \in AllNs |-> IF n = ns THEN {}
                                 ELSE IF n = Root THEN links[Root] \cup links[ns]
                                 ELSE links[n]]
    /\ rdmaLinks' = [n \in AllNs |-> IF n = ns THEN {}
                                     ELSE IF n = Root
                                     THEN rdmaLinks[Root] \cup rdmaLinks[ns]
                                     ELSE rdmaLinks[n]]
    /\ lastOp' = HookRec("NetnsDelete", "-", NilErr, <<>>, {})
    /\ UNCHANGED auxVars
    /\ UNCHANGED metrics
    /\ UNCHANGED <<claimAllocations, netNsForPod, podConfigStore, crashed>>

----------------------------------------------------------------------------
(* Metrics (pkg/driver/metrics.go): request counters by method and status,   *)
(* latency observations by method, the time of the last publication          *)

statusSuccess == "success"
statusFailed == "failed"
statusNoop == "noop"
Statuses == {statusSuccess, statusFailed, statusNoop}

methodCreateContainer == "CreateContainer"
Methods == {"PrepareResourceClaims", "UnprepareResourceClaims",
            "RunPodSandbox", "StopPodSandbox", "RemovePodSandbox",
            methodCreateContainer}

NoMetrics == [requestsTotal |-> [m \in Methods |-> [s \in Statuses |-> 0]],
              latency |-> [m \in Methods |-> 0],
              lastPublishedTime |-> 0]

----------------------------------------------------------------------------

\* the driver after Start
DriverInit ==
    /\ claimAllocations = EmptyStore
    /\ netNsForPod = [k \in PodKeys |-> NoEntry]
    /\ podConfigStore = EmptyConfigs
    /\ links = [n \in AllNs |-> IF n = Root THEN Devices ELSE {}]
    /\ rdmaLinks = [n \in AllNs |-> IF n = Root THEN RdmaDevices ELSE {}]
    /\ nsExists = NsPaths
    /\ crashed = FALSE
    /\ lastOp = HookRec("Start", "-", NilErr, <<>>, {})
    /\ metrics = NoMetrics

\* the parts that the driver's calls leave alone
PciIdle == [step |-> "idle"]
CfgIdle == [step |-> "idle"]
NetIdle == [step |-> "idle"]
InvIdle == [step |-> "idle"]
PubIdle == [step |-> "idle"]
ThrIdle == [step |-> "idle"]
PluginIdle == [step |-> "idle"]

Init ==
    /\ DriverInit
    /\ pci = PciIdle /\ vcfg = CfgIdle /\ net = NetIdle /\ inv = InvIdle
    /\ pub = PubIdle /\ thr = ThrIdle
    /\ plugin = PluginIdle

Next ==
    \/ \E pods \in Lists(Pods, MaxSyncPods) : Synchronize(pods)
    \/ \E pod \in Pods : RunPodSandbox(pod)
    \/ \E pod \in Pods : StopPodSandbox(pod)
    \/ \E pod \in Pods : RemovePodSandbox(pod)
    \/ \E claims \in Lists(Claims, MaxBatch) : PrepareResourceClaims(claims)
    \/ \E claims \in Lists({NamespacedObject(c) : c \in Claims}, MaxBatch) :
          UnprepareResourceClaims(claims)
    \/ \E uid \in ConfigPodUIDs, iface \in ConfigIfaces, cfg \in PodConfigs :
          PodConfigSet(uid, iface, cfg)
    \/ \E ns \in NsPaths : NetnsDelete(ns)

Spec == Init /\ [][Next]_vars

----------------------------------------------------------------------------
(* CreateContainer: the character devices of the pod's configs become the   *)
(* device grants of the container adjustment                                *)

\* CreateContainer calls that are followed
MaxContainerCalls == 2

LinuxDevice(path, major, minor) ==
    [Path |-> path, Type |-> "c", Major |-> major, Minor |-> minor]

Uverbs0 == LinuxDevice("/dev/infiniband/uverbs0", 231, 192)
Uverbs1 == LinuxDevice("/dev/infiniband/uverbs1", 231, 193)
RdmaCm == LinuxDevice("/dev/infiniband/rdma_cm", 10, 58)

\* PodConfig values with the RDMA character devices of an interface
ContainerConfigs ==
    {[RDMADevice |-> [DevChars |-> chars]] :
        chars \in {<<>>, <<Uverbs0>>, <<Uverbs0, RdmaCm>>, <<Uverbs1, RdmaCm>>,
                   <<Uverbs0, Uverbs0>>}}

ContainerPodUIDs == {"test-pod", "other-pod"}
ContainerIfaces == {"eth0", "eth1", "eth2"}

GetPodConfigs(store, uid) ==
    IF uid \in DOMAIN store THEN store[uid] ELSE [i \in {} |-> 0]

\* variant: one grant per reference
AppendDevices_All(devices, chars) == devices \o chars

\* the grants after the character devices of one config: a path that is
\* granted already is skipped
RECURSIVE AppendDevices(_, _)
AppendDevices(devices, chars) ==
    IF chars = <<>> THEN devices
    ELSE AppendDevices(
            IF \E k \in 1..Len(devices) : devices[k].Path = Head(chars).Path
            THEN devices ELSE Append(devices, Head(chars)),
            Tail(chars))

\* the configs of the pod, in the order the map yields them
RECURSIVE CollectDevices(_, _, _)
CollectDevices(configs, order, devices) ==
    IF order = <<>> THEN devices
    ELSE CollectDevices(configs, Tail(order),
                        AppendDevices(devices,
                                      configs[Head(order)].RDMADevice.DevChars))

NoAdjustment == [Linux |-> [Devices |-> <<>>]]

CreateContainerImpl(store, uid, order) ==
    LET configs == GetPodConfigs(store, uid)
    IN  IF DOMAIN configs = {}
        THEN [adjust |-> NoAdjustment, status |-> statusNoop]
        ELSE LET devices == CollectDevices(configs, order, <<>>)
             IN  [adjust |-> [Linux |-> [Devices |-> devices]],
                  status |-> IF devices = <<>> THEN statusNoop
                             ELSE statusSuccess]

ContainerConfigSet(uid, iface, cfg) ==
    /\ podConfigStore' = PodConfigStoreSet(podConfigStore, uid, iface, cfg)
    /\ lastOp' = [op |-> "PodConfigStore.Set", pod |-> uid, err |-> NilErr,
                  adjust |-> NoAdjustment]
    /\ UNCHANGED <<claimAllocations, netNsForPod, links, rdmaLinks, nsExists,
                   crashed, metrics>>
    /\ UNCHANGED auxVars

CreateContainer(uid) ==
    /\ metrics.latency[methodCreateContainer] < MaxContainerCalls
    /\ \E order \in Orders(DOMAIN GetPodConfigs(podConfigStore, uid)) :
          LET r == CreateContainerImpl(podConfigStore, uid, order)
          IN  /\ lastOp' = [op |-> methodCreateContainer, pod |-> uid,
                            err |-> NilErr, adjust |-> r.adjust]
              /\ metrics' =
                    [metrics EXCEPT
                       !.requestsTotal[methodCreateContainer][r.status] = @ + 1,
                       !.latency[methodCreateContainer] = @ + 1]
    /\ UNCHANGED <<claimAllocations, netNsForPod, podConfigStore, links,
                   rdmaLinks, nsExists, crashed>>
    /\ UNCHANGED auxVars

InitContainer == Init

NextContainer ==
    \/ \E iface \in ContainerIfaces, cfg \in ContainerConfigs :
          ContainerConfigSet("test-pod", iface, cfg)
    \/ \E uid \in ContainerPodUIDs : CreateContainer(uid)

SpecContainer == InitContainer /\ [][NextContainer]_vars

----------------------------------------------------------------------------
(* The effector routines and the OS threads (pkg/driver/rdmadevice.go,      *)
(* netnamespace.go): a goroutine runs on some OS thread and moves to        *)
(* another one at any moment unless it is locked to its thread; a network   *)
(* namespace is a property of the OS thread.                                *)

\* effector calls that are followed
MaxCalls == 2

\* OS threads of the process
NumThreads == 2
Threads == 1..NumThreads

RootNs == "root"
PodNs == "pod"

Routines == {"nsAttachRdmadev", "nsDetachRdmadev", "applyRoutingConfig"}

\* the first step after netns.GetFromPath
AfterGetFromPath(routine) ==
    IF routine = "nsAttachRdmadev" THEN "RdmaLinkByName" ELSE "NewHandleAt:lock"

\* the first step after netlink.NewHandleAt
AfterNewHandleAt(routine) ==
    IF routine = "nsDetachRdmadev" THEN "nhNs.RdmaLinkByName"
    ELSE "nhNs.LinkByName"

ThrStart ==
    [step |-> "ready", routine |-> "none", thread |-> 1, locked |-> FALSE,
     ns |-> [t \in Threads |-> RootNs], cur |-> "", handle |-> "",
     rootNs |-> "", rdmaAt |-> RootNs, podNsExists |-> TRUE, err |-> NilErr,
     calls |-> 0, open |-> {}]

ThrUnchanged == UNCHANGED <<driverVars, pci, vcfg, net, inv, pub, plugin>>

\* what the deferred calls of a routine close when it returns: the namespace
\* file descriptor and the handle in applyRoutingConfig, the descriptor of
\* the root namespace in nsDetachRdmadev, nothing in nsAttachRdmadev
DeferredClose(routine) ==
    IF routine = "applyRoutingConfig" THEN {"containerNs", "nhNs"}
    ELSE IF routine = "nsDetachRdmadev" THEN {"rootNs"}
    ELSE {}

\* the driver calls an effector routine
Call(routine) ==
    /\ thr.step = "ready"
    /\ thr.calls < MaxCalls
    /\ thr' = [thr EXCEPT !.step = "GetFromPath", !.routine = routine,
                          !.cur = "", !.handle = "", !.rootNs = "",
                          !.err = NilErr, !.calls = @ + 1, !.open = {}]
    /\ ThrUnchanged

\* netns.GetFromPath(containerNsPAth): opens the namespace file
GetFromPath ==
    /\ thr.step = "GetFromPath"
    /\ thr' = IF thr.podNsExists
              THEN [thr EXCEPT !.step = AfterGetFromPath(thr.routine),
                               !.open = @ \cup {"containerNs"}]
              ELSE [thr EXCEPT !.step = "return",
                               !.err = "could not get network namespace"]
    /\ ThrUnchanged

\* netlink.NewHandleAt(containerNs), a library call, makes a socket in the
\* namespace: it locks the thread, enters the namespace, opens the socket,
\* goes back and unlocks
HandleLockOSThread ==
    /\ thr.step = "NewHandleAt:lock"
    /\ thr' = [thr EXCEPT !.step = "NewHandleAt:netns.Get", !.locked = TRUE]
    /\ ThrUnchanged

HandleGetCurrent ==
    /\ thr.step = "NewHandleAt:netns.Get"
    /\ thr' = [thr EXCEPT !.step = "NewHandleAt:netns.Set",
                          !.cur = thr.ns[thr.thread]]
    /\ ThrUnchanged

HandleEnter ==
    /\ thr.step = "NewHandleAt:netns.Set"
    /\ thr' = [thr EXCEPT !.step = "NewHandleAt:socket",
                          !.ns[thr.thread] = PodNs]
    /\ ThrUnchanged

HandleSocket ==
    /\ thr.step = "NewHandleAt:socket"
    /\ thr' = [thr EXCEPT !.step = "NewHandleAt:moveBack",
                          !.handle = thr.ns[thr.thread],
                          !.open = @ \cup {"nhNs"}]
    /\ ThrUnchanged

HandleMoveBack ==
    /\ thr.step = "NewHandleAt:moveBack"
    /\ thr' = [thr EXCEPT !.step = "NewHandleAt:unlock",
                          !.ns[thr.thread] = thr.cur]
    /\ ThrUnchanged

HandleUnlockOSThread ==
    /\ thr.step = "NewHandleAt:unlock"
    /\ thr' = [thr EXCEPT !.step = AfterNewHandleAt(thr.routine),
                          !.locked = FALSE]
    /\ ThrUnchanged

\* nsAttachRdmadev: netlink.RdmaLinkByName on a socket of the namespace the
\* thread is in
RdmaLinkByName ==
    /\ thr.step = "RdmaLinkByName"
    /\ thr' = IF thr.rdmaAt = thr.ns[thr.thread]
              THEN [thr EXCEPT !.step = "RdmaLinkSetNsFd"]
              ELSE [thr EXCEPT !.step = "return", !.err = "link not found"]
    /\ ThrUnchanged

\* nsAttachRdmadev: the RDMA link goes to the namespace of the pod
RdmaLinkSetNsFd ==
    /\ thr.step = "RdmaLinkSetNsFd"
    /\ thr' = [thr EXCEPT !.step = "return", !.rdmaAt = PodNs]
    /\ ThrUnchanged

\* nsDetachRdmadev: nhNs.RdmaLinkByName on the socket of the handle
HandleRdmaLinkByName ==
    /\ thr.step = "nhNs.RdmaLinkByName"
    /\ thr' = IF thr.rdmaAt = thr.handle
              THEN [thr EXCEPT !.step = "netns.Get"]
              ELSE [thr EXCEPT !.step = "return", !.err = "failed to find"]
    /\ ThrUnchanged

\* nsDetachRdmadev: netns.Get() yields the namespace of the thread the
\* goroutine is on at that moment
NetnsGet ==
    /\ thr.step = "netns.Get"
    /\ thr' = [thr EXCEPT !.step = "nhNs.RdmaLinkSetNsFd",
                          !.rootNs = thr.ns[thr.thread],
                          !.open = @ \cup {"rootNs"}]
    /\ ThrUnchanged

\* nsDetachRdmadev: the RDMA link goes to the namespace netns.Get() gave
HandleRdmaLinkSetNsFd ==
    /\ thr.step = "nhNs.RdmaLinkSetNsFd"
    /\ thr' = [thr EXCEPT !.step = "return", !.rdmaAt = thr.rootNs]
    /\ ThrUnchanged

\* applyRoutingConfig: the link and its routes through the handle
HandleLinkByName ==
    /\ thr.step = "nhNs.LinkByName"
    /\ \E found \in BOOLEAN :
          thr' = IF found THEN [thr EXCEPT !.step = "nhNs.RouteAdd"]
                 ELSE [thr EXCEPT !.step = "return", !.err = "link not found"]
    /\ ThrUnchanged

HandleRouteAdd ==
    /\ thr.step = "nhNs.RouteAdd"
    /\ thr' = [thr EXCEPT !.step = "return"]
    /\ ThrUnchanged

Return ==
    /\ thr.step = "return"
    /\ thr' = [thr EXCEPT !.step = "ready", !.routine = "none",
                          !.open = @ \ DeferredClose(thr.routine)]
    /\ ThrUnchanged

\* the Go scheduler moves a goroutine that is not locked to another thread
Migrate ==
    /\ thr.step \notin {"idle", "ready"}
    /\ ~thr.locked
    /\ \E t \in Threads \ {thr.thread} : thr' = [thr EXCEPT !.thread = t]
    /\ ThrUnchanged

\* the runtime removes the namespace of the pod, or makes it again
PodNsToggle ==
    /\ thr.step = "ready"
    /\ thr.rdmaAt = RootNs
    /\ thr' = [thr EXCEPT !.podNsExists = ~@]
    /\ ThrUnchanged

InitThreads ==
    /\ DriverInit
    /\ pci = PciIdle /\ vcfg = CfgIdle /\ net = NetIdle /\ inv = InvIdle
    /\ pub = PubIdle
    /\ thr = ThrStart
    /\ plugin = PluginIdle

NextThreads ==
    \/ \E routine \in Routines : Call(routine)
    \/ GetFromPath
    \/ HandleLockOSThread
    \/ HandleGetCurrent
    \/ HandleEnter
    \/ HandleSocket
    \/ HandleMoveBack
    \/ HandleUnlockOSThread
    \/ RdmaLinkByName
    \/ RdmaLinkSetNsFd
    \/ HandleRdmaLinkByName
    \/ NetnsGet
    \/ HandleRdmaLinkSetNsFd
    \/ HandleLinkByName
    \/ HandleRouteAdd
    \/ Return
    \/ Migrate
    \/ PodNsToggle

SpecThreads == InitThreads /\ [][NextThreads]_vars

----------------------------------------------------------------------------
(* PCI addresses and device names (pkg/inventory): strings are sequences of  *)
(* characters here, because the two conversions work on the characters.     *)

HexDigits == {"0", "a"}
HexStrings(n) == [1..n -> HexDigits]

normalizedNamePrefix == <<"n", "e", "t", "1">>

\* pciAddressRegex: ^(?:([0-9a-fA-F]{4}):)?([0-9a-fA-F]{2}):([0-9a-fA-F]{2})\.([0-9a-fA-F])$
BusDevFn(s) ==
    /\ Len(s) = 7
    /\ \A i \in {1, 2, 4, 5, 7} : s[i] \in HexDigits
    /\ s[3] = ":" /\ s[6] = "."

pciAddressRegex(s) ==
    \/ BusDevFn(s)
    \/ /\ Len(s) = 12
       /\ \A i \in 1..4 : s[i] \in HexDigits
       /\ s[5] = ":"
       /\ BusDevFn(SubSeq(s, 6, 12))

\* the strings over HexDigits that pciAddressRegex matches
PCIAddresses ==
    LET short == {b \o <<":">> \o d \o <<".">> \o f :
                     b \in HexStrings(2), d \in HexStrings(2), f \in HexStrings(1)}
    IN  short \cup {dom \o <<":">> \o a : dom \in HexStrings(4), a \in short}

\* strings.NewReplacer(":", "-", ".", "-").Replace
Replace(s) == [i \in 1..Len(s) |-> IF s[i] \in {":", "."} THEN "-" ELSE s[i]]

HasPrefix(s, prefix) ==
    /\ Len(s) >= Len(prefix)
    /\ SubSeq(s, 1, Len(prefix)) = prefix

TrimPrefix(s, prefix) ==
    IF HasPrefix(s, prefix) THEN SubSeq(s, Len(prefix) + 1, Len(s)) ELSE s

\* strings.Split(s, "-"): the pieces between the dashes, empty ones included
RECURSIVE SplitFrom(_, _, _)
SplitFrom(s, cur, acc) ==
    IF s = <<>> THEN Append(acc, cur)
    ELSE IF Head(s) = "-" THEN SplitFrom(Tail(s), <<>>, Append(acc, cur))
    ELSE SplitFrom(Tail(s), Append(cur, Head(s)), acc)

Split(s) == SplitFrom(s, <<>>, <<>>)

NormalizePCIAddress(pciAddress) ==
    IF pciAddress = <<>> THEN <<>>
    ELSE normalizedNamePrefix \o <<"-">> \o Replace(pciAddress)

DeNormalizePCIAddress(normalizedAddress) ==
    IF normalizedAddress = <<>> THEN <<>>
    ELSE IF ~HasPrefix(normalizedAddress, normalizedNamePrefix \o <<"-">>)
    THEN <<>>
    ELSE LET pciAddress == TrimPrefix(normalizedAddress,
                                      normalizedNamePrefix \o <<"-">>)
             parts == Split(pciAddress)
         IN  IF Len(parts) # 4 THEN <<>>
             ELSE parts[1] \o <<":">> \o parts[2] \o <<":">> \o parts[3]
                     \o <<".">> \o parts[4]

\* device names a caller may hand to DeNormalizePCIAddress: the names of the
\* tests, and names with the prefix or a part taken away or a part added
DeviceNames ==
    LET a == <<"0", "0", "0", "0", ":", "a", "a", ":", "0", "0", ".", "0">>
        n == NormalizePCIAddress(a)
    IN  {<<>>, n, SubSeq(n, 6, Len(n)), SubSeq(n, 1, Len(n) - 2),
         n \o <<"-", "0">>, SubSeq(n, 1, 4) \o SubSeq(n, 6, Len(n)),
         SubSeq(n, 2, Len(n))}

\* a device of the host gets its name from its address; a name comes back
\* as an address
PciNormalize ==
    /\ pci.step = "address"
    /\ pci' = [pci EXCEPT !.step = "named",
                          !.name = NormalizePCIAddress(pci.addr)]
    /\ UNCHANGED <<driverVars, vcfg, net, inv, pub, thr, plugin>>

PciDeNormalize ==
    /\ pci.step = "named"
    /\ pci' = [pci EXCEPT !.step = "resolved",
                          !.out = DeNormalizePCIAddress(pci.name)]
    /\ UNCHANGED <<driverVars, vcfg, net, inv, pub, thr, plugin>>

\* a device name that comes from a claim
PciDeNormalizeName(name) ==
    /\ pci.step = "address"
    /\ pci' = [pci EXCEPT !.step = "looked-up", !.name = name,
                          !.out = DeNormalizePCIAddress(name)]
    /\ UNCHANGED <<driverVars, vcfg, net, inv, pub, thr, plugin>>

InitPci ==
    /\ DriverInit
    /\ pci \in {[step |-> "address", addr |-> a, name |-> <<>>, out |-> <<>>] :
                   a \in PCIAddresses}
    /\ vcfg = CfgIdle /\ net = NetIdle /\ inv = InvIdle
    /\ pub = PubIdle /\ thr = ThrIdle
    /\ plugin = PluginIdle

NextPci ==
    \/ PciNormalize
    \/ PciDeNormalize
    \/ \E name \in DeviceNames : PciDeNormalizeName(name)

SpecPci == InitPci /\ [][NextPci]_vars

----------------------------------------------------------------------------
(* Opaque configuration (pkg/apis ValidateConfig).  An IP or CIDR string is  *)
(* a token sequence: <<"10.0.5.1">>, <<"10.0.0.0", "/", "8">>; the empty     *)
(* string is <<>>.  A JSON object is a function from the keys it has to     *)
(* their values, so that a key may be absent or unknown.                    *)

MaxRoutes == 2

RT_SCOPE_UNIVERSE == 0
RT_SCOPE_LINK == 253

\* the dotted quads that occur, as octets
IPTable ==
    ("10.0.0.0" :> <<10, 0, 0, 0>>) @@ ("10.0.5.0" :> <<10, 0, 5, 0>>) @@
    ("10.0.5.1" :> <<10, 0, 5, 1>>) @@ ("10.0.5.8" :> <<10, 0, 5, 8>>) @@
    ("192.168.1.1" :> <<192, 168, 1, 1>>)

\* the prefix lengths that occur
BitsTable == ("8" :> 8) @@ ("24" :> 24) @@ ("32" :> 32)

NoIP == <<>>

\* net.ParseIP: the address, or nil
ParseIP(str) ==
    IF Len(str) = 1 /\ str[1] \in DOMAIN IPTable THEN IPTable[str[1]] ELSE NoIP

\* the first bits of an address, the rest zero
Mask(ip, bits) == [i \in 1..4 |-> IF 8 * i <= bits THEN ip[i] ELSE 0]

\* net.ParseCIDR: the network of "<ip>/<bits>", or an error
ParseCIDR(str) ==
    IF /\ Len(str) = 3
       /\ str[1] \in DOMAIN IPTable
       /\ str[2] = "/"
       /\ str[3] \in DOMAIN BitsTable
    THEN [ok |-> TRUE,
          dst |-> [ip |-> Mask(IPTable[str[1]], BitsTable[str[3]]),
                   bits |-> BitsTable[str[3]]]]
    ELSE [ok |-> FALSE, dst |-> [ip |-> NoIP, bits |-> 0]]

\* netip.ParsePrefix succeeds on the same strings
ParsePrefix(str) == ParseCIDR(str).ok

\* the keys of the schema
ConfigSchema == {"interface", "routes"}
InterfaceSchema == {"name", "addresses", "mtu"}
RouteSchema == {"destination", "gateway", "source", "scope", "table"}

Field(obj, key, zero) == IF key \in DOMAIN obj THEN obj[key] ELSE zero

\* the Go value of a route object: absent keys take the zero value
UnmarshalRoute(obj) ==
    [Destination |-> Field(obj, "destination", <<>>),
     Gateway |-> Field(obj, "gateway", <<>>),
     Source |-> Field(obj, "source", <<>>),
     Scope |-> Field(obj, "scope", 0),
     Table |-> Field(obj, "table", 0)]

UnmarshalInterface(obj) ==
    [Name |-> Field(obj, "name", ""),
     Addresses |-> Field(obj, "addresses", <<>>),
     MTU |-> Field(obj, "mtu", 0)]

\* the index of the i-th element as it is printed
IndexString == <<"0", "1", "2", "3">>

\* the unknown keys of a document, by path
UnknownFields(doc) ==
    LET routes == Field(doc, "routes", <<>>)
        iface == Field(doc, "interface", <<>>)
    IN  {<<k>> : k \in DOMAIN doc \ ConfigSchema}
        \cup {<<"interface", k>> : k \in DOMAIN iface \ InterfaceSchema}
        \cup UNION {{<<"routes", IndexString[i], k>> :
                          k \in DOMAIN routes[i] \ RouteSchema} :
                       i \in 1..Len(routes)}

\* json.UnmarshalStrict without the strict errors: unknown keys are dropped
UnmarshalStrict_Lenient(raw) ==
    IF raw.kind = "malformed"
    THEN [err |-> "unexpected end of JSON", strictErrs |-> {}, config |-> <<>>]
    ELSE LET routes == Field(raw.doc, "routes", <<>>)
         IN  [err |-> NilErr,
              strictErrs |-> {},
              config |-> [Interface |-> UnmarshalInterface(
                                           Field(raw.doc, "interface", <<>>)),
                          Routes |-> [i \in 1..Len(routes) |->
                                         UnmarshalRoute(routes[i])]]]

\* json.UnmarshalStrict
UnmarshalStrict(raw) ==
    IF raw.kind = "malformed"
    THEN [err |-> "unexpected end of JSON", strictErrs |-> {}, config |-> <<>>]
    ELSE LET routes == Field(raw.doc, "routes", <<>>)
         IN  [err |-> NilErr,
              strictErrs |-> UnknownFields(raw.doc),
              config |-> [Interface |-> UnmarshalInterface(
                                           Field(raw.doc, "interface", <<>>)),
                          Routes |-> [i \in 1..Len(routes) |->
                                         UnmarshalRoute(routes[i])]]]

\* one error of the list: the message, the route index it names (or "-")
\* and the value it quotes
ErrMsg(msg, route, value) == [msg |-> msg, route |-> route, value |-> value]

\* the loop over config.Interface.Addresses
RECURSIVE ValidateAddresses(_)
ValidateAddresses(addresses) ==
    IF addresses = <<>> THEN <<>>
    ELSE (IF ~ParsePrefix(Head(addresses))
          THEN <<ErrMsg("invalid IP in CIDR format", "-", Head(addresses))>>
          ELSE <<>>)
         \o ValidateAddresses(Tail(addresses))

\* the body of the loop over the routes with a gateway never required
ValidateRoute_GatewayOptional(i, route) ==
    (IF route.Destination = <<>>
     THEN <<ErrMsg("destination cannot be empty", i, <<>>)>>
     ELSE IF ~ParseCIDR(route.Destination).ok /\ ParseIP(route.Destination) = NoIP
     THEN <<ErrMsg("invalid destination IP or CIDR", i, route.Destination)>>
     ELSE <<>>)
    \o (IF route.Scope # RT_SCOPE_UNIVERSE /\ route.Scope # RT_SCOPE_LINK
        THEN <<ErrMsg("invalid scope", i, <<>>)>>
        ELSE <<>>)
    \o (IF route.Gateway # <<>> /\ ParseIP(route.Gateway) = NoIP
        THEN <<ErrMsg("invalid gateway IP", i, route.Gateway)>>
        ELSE <<>>)

\* the body of the loop over config.Routes
ValidateRoute(i, route) ==
    (IF route.Destination = <<>>
     THEN <<ErrMsg("destination cannot be empty", i, <<>>)>>
     ELSE IF ~ParseCIDR(route.Destination).ok /\ ParseIP(route.Destination) = NoIP
     THEN <<ErrMsg("invalid destination IP or CIDR", i, route.Destination)>>
     ELSE <<>>)
    \o (IF route.Scope # RT_SCOPE_UNIVERSE /\ route.Scope # RT_SCOPE_LINK
        THEN <<ErrMsg("invalid scope", i, <<>>)>>
        ELSE <<>>)
    \o (IF route.Gateway # <<>>
        THEN IF ParseIP(route.Gateway) = NoIP
             THEN <<ErrMsg("invalid gateway IP", i, route.Gateway)>>
             ELSE <<>>
        ELSE IF route.Scope # RT_SCOPE_LINK
        THEN <<ErrMsg("must have a gateway", i, route.Destination)>>
        ELSE <<>>)

\* the loop over the routes stopping at the first route with an error
RECURSIVE ValidateRoutes_FirstOnly(_, _)
ValidateRoutes_FirstOnly(routes, i) ==
    IF i > Len(routes) THEN <<>>
    ELSE IF ValidateRoute(IndexString[i], routes[i]) # <<>>
    THEN ValidateRoute(IndexString[i], routes[i])
    ELSE ValidateRoutes_FirstOnly(routes, i + 1)

\* the loop over config.Routes, from the i-th route on
RECURSIVE ValidateRoutes(_, _)
ValidateRoutes(routes, i) ==
    IF i > Len(routes) THEN <<>>
    ELSE ValidateRoute(IndexString[i], routes[i]) \o ValidateRoutes(routes, i + 1)

NilConfig == [configNil |-> TRUE, config |-> <<>>]

\* ValidateConfig; errors.Join of no error is nil, here the empty list
ValidateConfig(raw) ==
    IF raw.isNil \/ raw.kind = "nil" THEN [out |-> NilConfig, err |-> <<>>]
    ELSE IF raw.kind = "empty" THEN [out |-> NilConfig, err |-> <<>>]
    ELSE LET u == UnmarshalStrict(raw)
         IN  IF u.err # NilErr
             THEN [out |-> NilConfig,
                   err |-> <<ErrMsg("failed to unmarshal JSON data", "-", <<>>)>>]
             ELSE IF u.strictErrs # {}
             THEN [out |-> NilConfig,
                   err |-> <<ErrMsg("failed to unmarshal strict JSON data", "-",
                                    u.strictErrs)>>]
             ELSE [out |-> [configNil |-> FALSE, config |-> u.config],
                   err |-> ValidateAddresses(u.config.Interface.Addresses)
                           \o ValidateRoutes(u.config.Routes, 1)]

\* JSON objects of the tests (TestValidateConfig) and their neighbours
JsonObject(keys, dest, gw, scope) ==
    [k \in keys |-> CASE k = "destination" -> dest
                      [] k = "gateway" -> gw
                      [] k = "gateways" -> gw
                      [] k = "scope" -> scope]

Cidr8 == <<"10.0.0.0", "/", "8">>
BareIP == <<"10.0.5.1">>
GoodGateway == <<"10.0.5.1">>

RouteObjects ==
    {JsonObject({"destination"} \cup g \cup sc, Cidr8, gw, scope) :
        g \in {{}, {"gateway"}}, sc \in {{}, {"scope"}},
        gw \in {GoodGateway, <<"not-a-gateway">>},
        scope \in {RT_SCOPE_UNIVERSE, RT_SCOPE_LINK, 100}}
    \cup {JsonObject({"gateway"}, <<>>, GoodGateway, 0),
          JsonObject({"destination", "gateway"}, <<"not-an-ip">>, GoodGateway, 0),
          JsonObject({"destination", "gateway"}, <<"10.0.0.0", "/", "240">>,
                     GoodGateway, 0),
          JsonObject({"destination", "scope"}, BareIP, <<>>, RT_SCOPE_LINK),
          JsonObject({"gateways"}, <<>>, GoodGateway, 0),
          JsonObject({"scope"}, <<>>, <<>>, 100)}

RouteLists == UNION {SeqsOfLen(RouteObjects, n) : n \in 0..MaxRoutes}

AddressLists ==
    {<<>>, << <<"192.168.1.1", "/", "24">> >>, << <<"192.168.1.1", "/", "240">> >>,
     << <<"192.168.1.1", "/", "240">>, <<"10.0.0.0", "/", "invalid">> >>}

InterfaceObjects ==
    {[name |-> "eth0", addresses |-> a, mtu |-> m] :
        a \in AddressLists, m \in {-1, 1500}}
    \cup {[name |-> "eth0", addresses |-> << <<"192.168.1.1", "/", "24">> >>],
          [name |-> "eth0", mtus |-> 1500]}

\* *runtime.RawExtension
RawExtensions ==
    {[isNil |-> TRUE, kind |-> "nil", doc |-> <<>>],
     [isNil |-> FALSE, kind |-> "nil", doc |-> <<>>],
     [isNil |-> FALSE, kind |-> "empty", doc |-> <<>>],
     [isNil |-> FALSE, kind |-> "malformed", doc |-> <<>>]}
    \cup {[isNil |-> FALSE, kind |-> "json",
           doc |-> [interface |-> i, routes |-> rs]] :
             i \in InterfaceObjects, rs \in RouteLists}
    \cup {[isNil |-> FALSE, kind |-> "json", doc |-> [routes |-> rs]] :
             rs \in RouteLists}
    \cup {[isNil |-> FALSE, kind |-> "json",
           doc |-> [interface |-> i, route |-> <<>>]] : i \in InterfaceObjects}

Validate ==
    /\ vcfg.step = "raw"
    /\ LET r == ValidateConfig(vcfg.raw)
       IN  vcfg' = [vcfg EXCEPT !.step = "validated", !.out = r.out,
                                !.err = r.err]
    /\ UNCHANGED <<driverVars, pci, net, inv, pub, thr, plugin>>

InitConfig ==
    /\ DriverInit
    /\ vcfg \in {[step |-> "raw", raw |-> raw, out |-> NilConfig, err |-> <<>>] :
                    raw \in RawExtensions}
    /\ pci = PciIdle /\ net = NetIdle /\ inv = InvIdle
    /\ pub = PubIdle /\ thr = ThrIdle
    /\ plugin = PluginIdle

NextConfig == Validate

SpecConfig == InitConfig /\ [][NextConfig]_vars

----------------------------------------------------------------------------
(* Routes of an interface inside the pod namespace (applyRoutingConfig) and  *)
(* the kernel's side of it: the routes of the namespace are a set of        *)
(* records, each in a table.                                                *)

MaxApply == 2

RT_TABLE_MAIN == 254
EEXIST == "EEXIST"
EINVAL == "EINVAL"
ENETUNREACH == "ENETUNREACH"

\* the route the kernel keeps for an address of the interface
ConnectedRoute(addr) ==
    [dst |-> [ip |-> Mask(addr.ip, addr.bits), bits |-> addr.bits],
     gw |-> NoIP, src |-> addr.ip, scope |-> RT_SCOPE_LINK,
     table |-> RT_TABLE_MAIN]

Covers(dst, ip) == Mask(ip, dst.bits) = dst.ip

\* nhNs.RouteList(nsLink, FAMILY_ALL): the routes of the main table
RouteList(K) == {e \in K.routes : e.table = RT_TABLE_MAIN}

\* nhNs.RouteAdd (NLM_F_CREATE|NLM_F_EXCL): the kernel checks the next hop
\* and the preferred source, then refuses a second route for the same
\* destination in the same table
RouteAdd(K, r) ==
    LET table == IF r.table = 0 THEN RT_TABLE_MAIN ELSE r.table
        route == [r EXCEPT !.table = table]
    IN  IF r.gw # NoIP /\ r.scope >= RT_SCOPE_LINK
        THEN [K |-> K, err |-> EINVAL]
        ELSE IF r.gw # NoIP /\ ~\E e \in RouteList(K) :
                                    /\ e.scope = RT_SCOPE_LINK
                                    /\ e.gw = NoIP
                                    /\ Covers(e.dst, r.gw)
        THEN [K |-> K, err |-> ENETUNREACH]
        ELSE IF r.src # NoIP /\ r.src \notin {a.ip : a \in K.addrs}
        THEN [K |-> K, err |-> EINVAL]
        ELSE IF \E e \in K.routes : e.table = table /\ e.dst = r.dst
        THEN [K |-> K, err |-> EEXIST]
        ELSE [K |-> [K EXCEPT !.routes = @ \cup {route}], err |-> NilErr]

\* the comparison handed to slices.SortFunc, with the operands exchanged
ScopeCmp_Ascending(a, b) == a.Scope - b.Scope

\* the comparison handed to slices.SortFunc
ScopeCmp(a, b) == b.Scope - a.Scope

\* slices.SortFunc: some permutation that the comparison accepts as sorted
\* (the order of routes that compare equal is not specified)
SortFunc(routeConfig) ==
    {p \in {[i \in 1..Len(routeConfig) |-> routeConfig[o[i]]] :
               o \in Orders(1..Len(routeConfig))} :
        \A i, j \in 1..Len(p) : i < j => ScopeCmp(p[i], p[j]) <= 0}

\* the duplicate check of the loop
AlreadyExists(existingRoutes, r) ==
    \E existingRoute \in existingRoutes :
        /\ existingRoute.dst = r.dst
        /\ existingRoute.gw = r.gw
        /\ existingRoute.src = r.src
        /\ existingRoute.scope = r.scope

\* the loop over the sorted routes
RECURSIVE RoutesLoop(_, _, _, _)
RoutesLoop(routeConfig, K, errorList, attempted) ==
    IF routeConfig = <<>>
    THEN [K |-> K, errorList |-> errorList, attempted |-> attempted]
    ELSE LET route == Head(routeConfig)
             cidr == ParseCIDR(route.Destination)
             r == [dst |-> cidr.dst, gw |-> ParseIP(route.Gateway),
                   src |-> IF route.Source # <<>> THEN ParseIP(route.Source)
                           ELSE NoIP,
                   scope |-> route.Scope, table |-> route.Table]
             add == RouteAdd(K, r)
         IN  IF ~cidr.ok
             THEN RoutesLoop(Tail(routeConfig), K,
                             Append(errorList, "invalid CIDR address"),
                             Append(attempted, route))
             ELSE IF AlreadyExists(RouteList(K), r)
             THEN RoutesLoop(Tail(routeConfig), K, errorList,
                             Append(attempted, route))
             ELSE RoutesLoop(Tail(routeConfig), add.K,
                             IF add.err # NilErr /\ add.err # EEXIST
                             THEN Append(errorList, add.err) ELSE errorList,
                             Append(attempted, route))

\* applyRoutingConfig: sorted is the slice as slices.SortFunc left it; the
\* slice of the caller is sorted in place
applyRoutingConfig(K, nsFound, linkFound, routeConfig, sorted) ==
    IF ~nsFound
    THEN [K |-> K, routeConfig |-> routeConfig,
          err |-> <<"could not get network namespace">>, attempted |-> <<>>]
    ELSE IF ~linkFound
    THEN [K |-> K, routeConfig |-> routeConfig, err |-> <<"link not found">>,
          attempted |-> <<>>]
    ELSE LET l == RoutesLoop(sorted, K, <<>>, <<>>)
         IN  [K |-> l.K, routeConfig |-> sorted, err |-> l.errorList,
              attempted |-> l.attempted]

\* apis.RouteConfig
RouteConfig(dest, gw, source, scope, table) ==
    [Destination |-> dest, Gateway |-> gw, Source |-> source, Scope |-> scope,
     Table |-> table]

\* the routes of the comment in applyRoutingConfig, of its tests and of
\* policy routing
RouteConfigs ==
    {RouteConfig(Cidr8, GoodGateway, <<>>, RT_SCOPE_UNIVERSE, 0),
     RouteConfig(Cidr8, GoodGateway, <<>>, RT_SCOPE_UNIVERSE, 100),
     RouteConfig(Cidr8, <<"192.168.1.1">>, <<>>, RT_SCOPE_UNIVERSE, 0),
     RouteConfig(Cidr8, <<>>, <<>>, RT_SCOPE_UNIVERSE, 0),
     RouteConfig(BareIP, <<>>, <<>>, RT_SCOPE_LINK, 0),
     RouteConfig(<<"10.0.5.1", "/", "32">>, <<>>, <<>>, RT_SCOPE_LINK, 0),
     RouteConfig(<<"10.0.5.0", "/", "24">>, <<>>, <<>>, RT_SCOPE_LINK, 0),
     RouteConfig(<<"10.0.5.0", "/", "24">>, <<>>, <<"10.0.5.8">>, RT_SCOPE_LINK, 0)}

RouteConfigLists == UNION {SeqsOfLen(RouteConfigs, n) : n \in 0..MaxRoutes}

\* net.ParseMAC on the strings that occur
MACs == {"02:00:00:00:00:01", "02:00:00:00:00:02"}
ParseMAC(str) == [ok |-> str \in MACs, mac |-> str]

\* nhNs.NeighAdd (NLM_F_CREATE|NLM_F_EXCL): one entry per address
NeighAdd(K, n) ==
    IF \E e \in K.neighbors : e.ip = n.ip
    THEN [K |-> K, err |-> EEXIST]
    ELSE [K |-> [K EXCEPT !.neighbors = @ \cup {n}], err |-> NilErr]

RECURSIVE NeighLoop(_, _, _)
NeighLoop(neighConfig, K, errorList) ==
    IF neighConfig = <<>> THEN [K |-> K, errorList |-> errorList]
    ELSE LET neigh == Head(neighConfig)
             ip == ParseIP(neigh.Destination)
             mac == ParseMAC(neigh.HardwareAddr)
             add == NeighAdd(K, [ip |-> ip, mac |-> mac.mac,
                                 state |-> "NUD_PERMANENT"])
         IN  IF ip = NoIP
             THEN NeighLoop(Tail(neighConfig), K,
                            Append(errorList, "invalid ip address"))
             ELSE IF ~mac.ok
             THEN NeighLoop(Tail(neighConfig), K,
                            Append(errorList, "invalid mac address"))
             ELSE NeighLoop(Tail(neighConfig), add.K,
                            IF add.err # NilErr /\ add.err # EEXIST
                            THEN Append(errorList, add.err) ELSE errorList)

\* applyNeighborConfig returning at the first item that does not parse
applyNeighborConfig_AbortOnError(K, nsFound, linkFound, neighConfig) ==
    IF ~nsFound THEN [K |-> K, err |-> <<"could not get network namespace">>]
    ELSE IF ~linkFound THEN [K |-> K, err |-> <<"link not found">>]
    ELSE LET bad == {i \in 1..Len(neighConfig) :
                        \/ ParseIP(neighConfig[i].Destination) = NoIP
                        \/ ~ParseMAC(neighConfig[i].HardwareAddr).ok}
             upTo == IF bad = {} THEN Len(neighConfig)
                     ELSE CHOOSE i \in bad : \A j \in bad : i <= j
             l == NeighLoop(SubSeq(neighConfig, 1, upTo), K, <<>>)
         IN  [K |-> l.K, err |-> l.errorList]

applyNeighborConfig(K, nsFound, linkFound, neighConfig) ==
    IF ~nsFound THEN [K |-> K, err |-> <<"could not get network namespace">>]
    ELSE IF ~linkFound THEN [K |-> K, err |-> <<"link not found">>]
    ELSE LET l == NeighLoop(neighConfig, K, <<>>)
         IN  [K |-> l.K, err |-> l.errorList]

\* nsHandle.RuleAdd (NLM_F_CREATE|NLM_F_EXCL): the same rule twice is refused
RuleAdd(K, rule) ==
    IF rule \in K.rules THEN [K |-> K, err |-> EEXIST]
    ELSE [K |-> [K EXCEPT !.rules = @ \cup {rule}], err |-> NilErr]

NoNet == [ip |-> NoIP, bits |-> 0]

RECURSIVE RulesLoop(_, _, _)
RulesLoop(rulesConfig, K, errorList) ==
    IF rulesConfig = <<>> THEN [K |-> K, errorList |-> errorList]
    ELSE LET ruleCfg == Head(rulesConfig)
             src == ParseCIDR(ruleCfg.Source)
             dst == ParseCIDR(ruleCfg.Destination)
             rule == [priority |-> ruleCfg.Priority, table |-> ruleCfg.Table,
                      src |-> IF ruleCfg.Source # <<>> THEN src.dst ELSE NoNet,
                      dst |-> IF ruleCfg.Destination # <<>> THEN dst.dst
                              ELSE NoNet]
             add == RuleAdd(K, rule)
         IN  IF ruleCfg.Source # <<>> /\ ~src.ok
             THEN RulesLoop(Tail(rulesConfig), K,
                            Append(errorList, "invalid CIDR address"))
             ELSE IF ruleCfg.Destination # <<>> /\ ~dst.ok
             THEN RulesLoop(Tail(rulesConfig), K,
                            Append(errorList, "invalid CIDR address"))
             ELSE RulesLoop(Tail(rulesConfig), add.K,
                            IF add.err # NilErr /\ add.err # EEXIST
                            THEN Append(errorList, add.err) ELSE errorList)

applyRulesConfig(K, nsFound, rulesConfig) ==
    IF ~nsFound THEN [K |-> K, err |-> <<"could not get network namespace">>]
    ELSE LET l == RulesLoop(rulesConfig, K, <<>>)
         IN  [K |-> l.K, err |-> l.errorList]

\* apis.NeighborConfig and apis.RuleConfig values
NeighborConfigs ==
    {[Destination |-> d, HardwareAddr |-> m] :
        d \in {<<"10.0.5.1">>, <<"not-an-ip">>},
        m \in MACs \cup {"not-a-mac"}}

RuleConfigs ==
    {[Priority |-> 100, Table |-> 100, Source |-> src, Destination |-> dst] :
        src \in {<<>>, Cidr8, <<"10.0.0.0", "/", "240">>},
        dst \in {<<>>, <<"10.0.5.0", "/", "24">>}}

\* the configuration of one device: routes only, neighbors only or rules only
DeviceConfigs ==
    {[routes |-> c, neighbors |-> <<>>, rules |-> <<>>] : c \in RouteConfigLists}
    \cup {[routes |-> <<>>, neighbors |-> c, rules |-> <<>>] :
             c \in UNION {SeqsOfLen(NeighborConfigs, n) : n \in 1..MaxRoutes}}
    \cup {[routes |-> <<>>, neighbors |-> <<>>, rules |-> c] :
             c \in UNION {SeqsOfLen(RuleConfigs, n) : n \in 1..MaxRoutes}}

\* the addresses the interface may carry before the routes are applied
PreAddrs == {{}, {[ip |-> <<10, 0, 5, 8>>, bits |-> 24]}}

NetKernel ==
    [routes |-> net.routes, addrs |-> net.addrs, neighbors |-> net.neighbors,
     rules |-> net.rules]

\* what a call leaves in the namespace and in the record of the calls
Applied(op, K, err) ==
    [net EXCEPT !.routes = K.routes, !.neighbors = K.neighbors,
                !.rules = K.rules, !.op = op,
                !.err = [@ EXCEPT ![op] = err],
                !.runs = [@ EXCEPT ![op] = @ + 1],
                !.prev = [K |-> NetKernel, err |-> net.err[op]]]

ApplyRoutingConfig ==
    /\ net.step = "attached"
    /\ net.runs["routes"] < MaxApply
    /\ \E sorted \in SortFunc(net.config) :
          LET r == applyRoutingConfig(NetKernel, net.nsFound, net.linkFound,
                                      net.config, sorted)
          IN  net' = [Applied("routes", r.K, r.err)
                         EXCEPT !.config = r.routeConfig,
                                !.attempted = r.attempted]
    /\ UNCHANGED <<driverVars, pci, vcfg, inv, pub, thr, plugin>>

ApplyNeighborConfig ==
    /\ net.step = "attached"
    /\ net.runs["neighbors"] < MaxApply
    /\ LET r == applyNeighborConfig(NetKernel, net.nsFound, net.linkFound,
                                    net.input.neighbors)
       IN  net' = Applied("neighbors", r.K, r.err)
    /\ UNCHANGED <<driverVars, pci, vcfg, inv, pub, thr, plugin>>

ApplyRulesConfig ==
    /\ net.step = "attached"
    /\ net.runs["rules"] < MaxApply
    /\ LET r == applyRulesConfig(NetKernel, net.nsFound, net.input.rules)
       IN  net' = Applied("rules", r.K, r.err)
    /\ UNCHANGED <<driverVars, pci, vcfg, inv, pub, thr, plugin>>

NetOps == {"routes", "neighbors", "rules"}

InitRoutes ==
    /\ DriverInit
    /\ net \in {[step |-> "attached", nsFound |-> n, linkFound |-> l,
                 addrs |-> a,
                 routes |-> {ConnectedRoute(x) : x \in a},
                 neighbors |-> {}, rules |-> {},
                 input |-> c, config |-> c.routes, attempted |-> <<>>,
                 op |-> "-",
                 err |-> [o \in NetOps |-> <<>>],
                 runs |-> [o \in NetOps |-> 0],
                 prev |-> [K |-> [routes |-> {}, addrs |-> a,
                                  neighbors |-> {}, rules |-> {}],
                           err |-> <<>>]] :
                   n \in BOOLEAN, l \in BOOLEAN, a \in PreAddrs,
                   c \in DeviceConfigs}
    /\ net.linkFound => net.nsFound
    /\ pci = PciIdle /\ vcfg = CfgIdle /\ inv = InvIdle
    /\ pub = PubIdle /\ thr = ThrIdle
    /\ plugin = PluginIdle

NextRoutes ==
    \/ ApplyRoutingConfig
    \/ ApplyNeighborConfig
    \/ ApplyRulesConfig

SpecRoutes == InitRoutes /\ [][NextRoutes]_vars

----------------------------------------------------------------------------
(* The inventory loop (pkg/inventory/pci.go, DB.Run) and the publisher      *)
(* (pkg/driver/driver.go, PublishResources): one refresh per pass, the      *)
(* snapshot handed to the publisher over an unbuffered channel              *)

MaxRefresh == 3

\* receives from the closed notification channel that are followed
MaxClosedReceives == 1

minInterval == 5
maxInterval == 60

pciClassNetwork == <<"0", "2">>

NoLink == [found |-> FALSE]

\* netlink's view of an interface of the root namespace
Link(mac, mtu, state, v4, tc) ==
    [found |-> TRUE, HardwareAddr |-> mac, MTU |-> mtu, EncapType |-> "ether",
     Alias |-> "", OperState |-> state, Type |-> "device",
     v4 |-> v4, v6 |-> {},
     tcFilters |-> [ok |-> tc # {}, names |-> tc],
     tcxFilters |-> [ok |-> FALSE, names |-> {}],
     sriovTotalVFs |-> 0, sriovNumVFs |-> 0, virtual |-> FALSE]

\* a PCI device as ghw, sysfs and netlink show it at one refresh: net is the
\* interface under <address>/net ("" when the interface is not in the root
\* namespace), link what LinkByName finds for it
PCIDevice(address, class, vendor, netIf, link, rdma) ==
    [Address |-> address, Class |-> [ID |-> class], Vendor |-> vendor,
     net |-> netIf, link |-> link, rdma |-> rdma]

AddrNic1 == <<"0","0","0","0",":","0","0",":","0","a",".","0">>
AddrNic0 == <<"0","0","0","0",":","0","a",":","0","0",".","0">>
AddrGpu  == <<"0","0","0","0",":","a","a",":","0","0",".","0">>

\* what a refresh can find for the first network controller: its interface
\* eth1 up, eth1 down with another address, eth1 without a link, or eth1
\* moved to a pod namespace
Nic1Views ==
    { PCIDevice(AddrNic1, <<"0","2","0","0">>, "mlx", "eth1",
                Link("02:00:00:00:00:01", 1500, "up", {"10.0.5.8"}, {"bpf1"}),
                TRUE),
      PCIDevice(AddrNic1, <<"0","2","0","0">>, "mlx", "eth1",
                Link("02:00:00:00:00:01", 9000, "down", {}, {}), TRUE),
      PCIDevice(AddrNic1, <<"0","2","0","0">>, "mlx", "eth1", NoLink, TRUE),
      PCIDevice(AddrNic1, <<"0","2","0","0">>, "mlx", "", NoLink, FALSE) }

\* the second network controller: eth0, the interface of the default route
Nic0Views ==
    { PCIDevice(AddrNic0, <<"0","2","0","7">>, "", "eth0",
                Link("02:00:00:00:00:02", 1460, "up", {"10.0.0.2"}, {}),
                FALSE) }

\* a display controller
GpuView == PCIDevice(AddrGpu, <<"0","3","0","0">>, "nv", "", NoLink, FALSE)

\* what ghw.PCI() can list: devices come and go between two refreshes
PCISnapshots ==
    {<<GpuView>>}
    \cup {<<n0, GpuView>> : n0 \in Nic0Views}
    \cup {<<n1, n0, GpuView>> : n1 \in Nic1Views, n0 \in Nic0Views}

\* the routes of the host that getDefaultGwInterfaces reads
HostRoutes ==
    { <<[Dst |-> "", Gw |-> "10.0.0.1", MultiPath |-> <<>>, Link |-> "eth0"],
        [Dst |-> "10.0.5.0/24", Gw |-> "", MultiPath |-> <<>>,
         Link |-> "eth1"]>> }

\* the interfaces that carry a default route
getDefaultGwInterfaces(routes) ==
    {routes[i].Link : i \in {j \in 1..Len(routes) :
                                /\ routes[j].Dst = ""
                                /\ \/ Len(routes[j].MultiPath) = 0
                                      /\ routes[j].Gw # ""
                                   \/ \E k \in 1..Len(routes[j].MultiPath) :
                                         routes[j].MultiPath[k].Gw # ""}}

isNetworkDevice(dev) == HasPrefix(dev.Class.ID, pciClassNetwork)

NoAttributes == [a \in {} |-> ""]

\* the attributes that are taken over from the device store
MutableAttrs ==
    {"ifName", "mac", "encapsulation", "alias", "state", "type", "ipv4",
     "ipv6", "tcFilterNames", "tcxProgramNames", "ebpf", "sriov", "sriovVfs",
     "virtual"}

mergeDeviceAttributes_Nothing(dest, src, attrsToCopy) == dest

mergeDeviceAttributes(dest, src, attrsToCopy) ==
    [a \in DOMAIN dest \cup (attrsToCopy \cap DOMAIN src) |->
        IF a \in attrsToCopy \cap DOMAIN src THEN src[a] ELSE dest[a]]

\* Vendor only: Product, Subsystem, Node and the PCIe root are set the same way
addPCIAttributes(attrs, pciDev) ==
    IF pciDev.Vendor # "" THEN ("pciVendor" :> pciDev.Vendor) @@ attrs
    ELSE attrs

\* the attributes read from the link of the interface
LinkAttributes(ifName, link) ==
    LET isEbpf == link.tcFilters.ok \/ link.tcxFilters.ok
        isSRIOV == link.sriovTotalVFs > 0
    IN  (IF isSRIOV THEN "sriovVfs" :> link.sriovNumVFs ELSE NoAttributes)
        @@ (IF link.tcxFilters.ok
            THEN "tcxProgramNames" :> link.tcxFilters.names ELSE NoAttributes)
        @@ (IF link.tcFilters.ok
            THEN "tcFilterNames" :> link.tcFilters.names ELSE NoAttributes)
        @@ (IF link.v6 # {} THEN "ipv6" :> link.v6 ELSE NoAttributes)
        @@ (IF link.v4 # {} THEN "ipv4" :> link.v4 ELSE NoAttributes)
        @@ [mac |-> link.HardwareAddr, mtu |-> link.MTU,
            encapsulation |-> link.EncapType, alias |-> link.Alias,
            state |-> link.OperState, type |-> link.Type,
            ebpf |-> isEbpf, sriov |-> isSRIOV, virtual |-> link.virtual]

addNetDevAttributes(deviceStore, attrs, pciDev) ==
    LET name == NormalizePCIAddress(pciDev.Address) IN
    IF pciDev.net = ""
    THEN IF name \in DOMAIN deviceStore
         THEN mergeDeviceAttributes(attrs, deviceStore[name].Attributes,
                                    MutableAttrs)
         ELSE attrs
    ELSE IF ~pciDev.link.found
    THEN ("ifName" :> pciDev.net) @@ attrs
    ELSE LinkAttributes(pciDev.net, pciDev.link)
         @@ ("ifName" :> pciDev.net) @@ attrs

addRDMADevAttributes(attrs, pciDev) == ("rdma" :> pciDev.rdma) @@ attrs

\* db.instance is nil off the cloud: no provider attributes
addCloudProviderAttributes(attrs) == attrs

pciToDRAdev(deviceStore, pciDev) ==
    [Name |-> NormalizePCIAddress(pciDev.Address),
     Attributes |->
        addCloudProviderAttributes(
          addRDMADevAttributes(
            addNetDevAttributes(deviceStore,
                                addPCIAttributes(NoAttributes, pciDev),
                                pciDev),
            pciDev))]

\* the loop over pci.Devices
RECURSIVE DiscoverDevices(_, _, _)
DiscoverDevices(deviceStore, pciDevices, i) ==
    IF i > Len(pciDevices) THEN <<>>
    ELSE (IF ~isNetworkDevice(pciDevices[i]) THEN <<>>
          ELSE <<pciToDRAdev(deviceStore, pciDevices[i])>>)
         \o DiscoverDevices(deviceStore, pciDevices, i + 1)

NilDeviceStore == [n \in {} |-> n]

\* before the first pass
NoPass == [pci |-> <<>>, devices |-> <<>>, storeBefore |-> NilDeviceStore,
           storeAfter |-> NilDeviceStore]

\* updateDeviceStore with one loop variable for all iterations: every entry
\* points at it, and it holds the last device
updateDeviceStore_SharedLoopVar(devices) ==
    [n \in {devices[i].Name : i \in 1..Len(devices)} |-> devices[Len(devices)]]

updateDeviceStore(devices) ==
    [n \in {devices[i].Name : i \in 1..Len(devices)} |->
        LET last == CHOOSE i \in 1..Len(devices) :
                        /\ devices[i].Name = n
                        /\ \A j \in 1..Len(devices) :
                              devices[j].Name = n => j <= i
        IN  devices[last]]

ShouldNotify_NonEmptyOnly(devices, hasDevices) == Len(devices) > 0

\* the condition of the notification
ShouldNotify(devices, hasDevices) == Len(devices) > 0 \/ hasDevices

\* saturating clocks
Later(t, d, cap) == IF t + d > cap THEN cap ELSE t + d

\* rateLimiter.Wait(ctx): a token every minInterval, a bucket of one; a
\* context that is done makes Wait return an error at once, which Run logs
WaitReturns(tokenAge, ctxDone) == ctxDone \/ tokenAge >= minInterval

\* one pass of the loop body up to the send on the notifications channel,
\* which blocks until the publisher receives.  log keeps, for every pass,
\* whether it found devices, whether its snapshot was taken, whether it left
\* the device store as it was and how long after the pass before it started;
\* pass keeps the last pass in full.
Refresh ==
    /\ inv.step = "wait"
    /\ Len(inv.log) < MaxRefresh
    /\ WaitReturns(inv.tokenAge, inv.ctxDone)
    /\ \E pciInfo \in PCISnapshots :
          LET devices == DiscoverDevices(inv.deviceStore, pciInfo, 1)
              notify  == ShouldNotify(devices, inv.hasDevices)
              store   == IF notify THEN updateDeviceStore(devices)
                         ELSE inv.deviceStore
          IN  inv' = [inv EXCEPT
                        !.step = IF notify THEN "sending" ELSE "select",
                        !.tokenAge = IF inv.ctxDone THEN @ ELSE 0,
                        !.gap = 0,
                        !.timer = 0,
                        !.hasDevices = IF notify THEN Len(devices) > 0 ELSE @,
                        !.deviceStore = store,
                        !.pending = IF notify THEN devices ELSE <<>>,
                        !.pass = [pci |-> pciInfo, devices |-> devices,
                                  storeBefore |-> inv.deviceStore,
                                  storeAfter |-> store],
                        !.log = Append(@, [had |-> Len(devices) > 0,
                                           emitted |-> FALSE,
                                           kept |-> store = inv.deviceStore,
                                           gap |-> inv.gap])]
    /\ UNCHANGED <<driverVars, pci, vcfg, net, pub, thr, plugin>>

\* ghw.PCI() fails: Run returns the error and the deferred close runs
PCIError ==
    /\ inv.step = "wait"
    /\ WaitReturns(inv.tokenAge, inv.ctxDone)
    /\ inv' = [inv EXCEPT !.step = "stopped", !.closed = TRUE,
                          !.err = "error getting PCI info"]
    /\ UNCHANGED <<driverVars, pci, vcfg, net, pub, thr, plugin>>

\* the select at the end of the pass: the maximum interval elapsed
Tick ==
    /\ inv.step = "select"
    /\ inv.timer >= maxInterval
    /\ inv' = [inv EXCEPT !.step = "wait", !.timer = 0]
    /\ UNCHANGED <<driverVars, pci, vcfg, net, pub, thr, plugin>>

\* the select at the end of the pass: a refresh was requested
SyncRequested ==
    /\ inv.step = "select"
    /\ inv.syncCh = 1
    /\ inv' = [inv EXCEPT !.step = "wait", !.syncCh = 0, !.timer = 0]
    /\ UNCHANGED <<driverVars, pci, vcfg, net, pub, thr, plugin>>

\* the select at the end of the pass: the context is done
Done ==
    /\ inv.step = "select"
    /\ inv.ctxDone
    /\ inv' = [inv EXCEPT !.step = "stopped", !.closed = TRUE,
                          !.err = "context canceled", !.timer = 0]
    /\ UNCHANGED <<driverVars, pci, vcfg, net, pub, thr, plugin>>

\* DB.Sync without the default case: the send waits while the buffer of the
\* channel is full
Sync_Blocking ==
    /\ inv.step # "idle"
    /\ inv.syncCh = 0
    /\ inv' = [inv EXCEPT !.syncCh = 1]
    /\ UNCHANGED <<driverVars, pci, vcfg, net, pub, thr, plugin>>

\* DB.Sync: a send that never blocks on a channel of capacity one
Sync ==
    /\ inv.step # "idle"
    /\ inv' = [inv EXCEPT !.syncCh = 1]
    /\ UNCHANGED <<driverVars, pci, vcfg, net, pub, thr, plugin>>

\* the process-wide context is cancelled
Cancel ==
    /\ inv.step # "idle"
    /\ ~inv.ctxDone
    /\ inv' = [inv EXCEPT !.ctxDone = TRUE]
    /\ UNCHANGED <<driverVars, pci, vcfg, net, pub, thr, plugin>>

\* time goes by, up to the next deadline: the token of the rate limiter
\* first, then the timer of the select
TimePasses ==
    /\ inv.step \notin {"idle", "stopped"}
    /\ LET d == IF inv.tokenAge < minInterval
                THEN minInterval - inv.tokenAge
                ELSE maxInterval - inv.timer
       IN  /\ d > 0
           /\ inv.tokenAge < minInterval \/ inv.step = "select"
           /\ inv' = [inv EXCEPT
                        !.tokenAge = Later(@, d, minInterval),
                        !.gap = Later(@, d, minInterval),
                        !.timer = IF inv.step = "select"
                                  THEN Later(@, d, maxInterval) ELSE @]
    /\ UNCHANGED <<driverVars, pci, vcfg, net, pub, thr, plugin>>

----------------------------------------------------------------------------
(* The publisher *)

nodeName == "test-node"

\* the selector of the driver: all devices, or the RDMA devices
CelPrograms == {"", "device.attributes.rdma"}

Selects(celProgram, device) ==
    celProgram = "" \/ ("rdma" \in DOMAIN device.Attributes
                        /\ device.Attributes["rdma"])

FilterDevices(celProgram, devices) ==
    SelectSeq(devices, LAMBDA d : Selects(celProgram, d))

DriverResources_Unfiltered(celProgram, devices) ==
    [Pools |-> (nodeName :> [Slices |-> <<[Devices |-> devices]>>])]

\* the object handed to the plugin helper: one pool, one slice
DriverResources(celProgram, devices) ==
    [Pools |-> (nodeName :>
                  [Slices |-> <<[Devices |->
                                    FilterDevices(celProgram, devices)]>>])]

PublishErrors == {NilErr, "publish failed"}

lastPublishedTimeAfter_Always(t, err, calls) == calls

\* the gauge after a call of the plugin helper: PublishResources leaves it
lastPublishedTimeAfter(t, err, calls) == t

AfterPublish_StopOnError(err) == IF err # NilErr THEN "stopped" ELSE "sleep"

\* where the loop goes after the call of the plugin helper
AfterPublish(err) == "sleep"

\* the receive case of the select: take the snapshot, filter, publish.  The
\* receive completes a send of the inventory loop or, once the channel is
\* closed, yields the nil snapshot at once.
PublishResources ==
    /\ pub.step = "select"
    /\ \/ inv.step = "sending"
       \/ inv.closed /\ pub.fromClosed < MaxClosedReceives
    /\ LET devices == IF inv.closed THEN <<>> ELSE inv.pending IN
       \E err \in PublishErrors :
          /\ pub' = [pub EXCEPT
                       !.step = AfterPublish(err),
                       !.calls = @ + 1,
                       !.fromClosed = IF inv.closed THEN @ + 1 ELSE @,
                       !.lastIn = devices,
                       !.prevErr = pub.last.err,
                       !.last = [resources |->
                                    DriverResources(pub.celProgram, devices),
                                 err |-> err]]
          /\ metrics' = [metrics EXCEPT !.lastPublishedTime =
                            lastPublishedTimeAfter(@, err, pub.calls + 1)]
    /\ inv' = IF inv.closed THEN inv
              ELSE [inv EXCEPT
                      !.step = "select",
                      !.pending = <<>>,
                      !.log = [@ EXCEPT ![Len(inv.log)].emitted = TRUE]]
    /\ UNCHANGED <<claimAllocations, netNsForPod, podConfigStore, links,
                   rdmaLinks, nsExists, crashed, lastOp, pci, vcfg, net, thr,
                   plugin>>

\* the poor man's rate limit is over
SleepOver ==
    /\ pub.step = "sleep"
    /\ pub' = [pub EXCEPT !.step = "select"]
    /\ UNCHANGED <<driverVars, pci, vcfg, net, inv, thr, plugin>>

\* the ctx.Done() case of the select
PublisherDone ==
    /\ pub.step = "select"
    /\ inv.ctxDone
    /\ pub' = [pub EXCEPT !.step = "stopped"]
    /\ UNCHANGED <<driverVars, pci, vcfg, net, inv, thr, plugin>>

\* New() followed by the start of Run and of PublishResources
InitInventory ==
    /\ DriverInit
    /\ inv \in {[step |-> "wait", hasDevices |-> FALSE,
                 deviceStore |-> NilDeviceStore, syncCh |-> 0,
                 pending |-> <<>>, closed |-> FALSE,
                 ctxDone |-> FALSE, err |-> "", log |-> <<>>,
                 pass |-> NoPass,
                 routes |-> r, tokenAge |-> minInterval,
                 gap |-> minInterval, timer |-> 0] : r \in HostRoutes}
    /\ pub \in {[step |-> "select", celProgram |-> c, calls |-> 0,
                 fromClosed |-> 0, lastIn |-> <<>>, prevErr |-> NilErr,
                 last |-> [resources |-> DriverResources(c, <<>>),
                           err |-> NilErr]] : c \in CelPrograms}
    /\ pci = PciIdle /\ vcfg = CfgIdle /\ net = NetIdle /\ thr = ThrIdle
    /\ plugin = PluginIdle

NextInventory ==
    \/ Refresh
    \/ PCIError
    \/ Tick
    \/ SyncRequested
    \/ Done
    \/ Sync
    \/ Cancel
    \/ TimePasses
    \/ PublishResources
    \/ SleepOver
    \/ PublisherDone

SpecInventory == InitInventory /\ [][NextInventory]_vars

\* The two loops as goroutines that the scheduler keeps running: a step of a
\* loop that stays possible is taken, and a select that finds the context
\* done again and again ends up taking that case (Go picks at random among
\* the ready cases).  No such assumption on the node (PCI errors), on the
\* callers of Sync or on the cancellation of the context.
SpecShutdown ==
    /\ InitInventory
    /\ [][NextInventory]_vars
    /\ WF_vars(Refresh)
    /\ WF_vars(Tick)
    /\ WF_vars(SyncRequested)
    /\ SF_vars(Done)
    /\ WF_vars(TimePasses)
    /\ WF_vars(PublishResources)
    /\ WF_vars(SleepOver)
    /\ SF_vars(PublisherDone)

----------------------------------------------------------------------------
(* Vocabulary of the properties, stated on the data and not through the     *)
(* operators of the driver                                                  *)

HostNetwork(pod) ==
    \A i \in 1..Len(pod.namespaces) : pod.namespaces[i].type # "network"

NetnsOf(pod) ==
    LET S == {i \in 1..Len(pod.namespaces) : pod.namespaces[i].type = "network"}
    IN  pod.namespaces[CHOOSE i \in S : \A j \in S : i <= j].path

IsHook(op) == op \in {"RunPodSandbox", "StopPodSandbox", "RemovePodSandbox"}

\* the stored claims reserved for the pod
ClaimsOfPod(pod) ==
    {c \in Range(claimAllocations) :
        \E i \in 1..Len(c.reservedFor) : c.reservedFor[i] = PodRef(pod.uid)}

\* the devices of this driver in the allocation results of the pod's claims
OwnDevices(pod) ==
    UNION {{c.allocation.results[i].device :
               i \in {j \in 1..Len(c.allocation.results) :
                         c.allocation.results[j].driver = DriverName}} :
           c \in {x \in ClaimsOfPod(pod) : ~x.allocation.isNil}}

\* the last call was this hook on a pod with claims and a network namespace
HookDone(op, pod) ==
    /\ lastOp.op = op
    /\ lastOp.pod = pod.uid
    /\ ClaimsOfPod(pod) # {}
    /\ ~HostNetwork(pod)

\* a claim that cannot be prepared: not allocated, a device of this driver
\* that no interface of the host has, or a config with an unknown field
CannotPrepare(c) ==
    \/ c.allocation.isNil
    \/ \E i \in 1..Len(c.allocation.results) :
          /\ c.allocation.results[i].driver = DriverName
          /\ c.allocation.results[i].device \notin Devices
    \/ \E i \in 1..Len(c.allocation.config) :
          c.allocation.config[i].parameters # "valid"

NamesUnknownDevice(c) ==
    /\ ~c.allocation.isNil
    /\ \E i \in 1..Len(c.allocation.results) :
          /\ c.allocation.results[i].driver = DriverName
          /\ c.allocation.results[i].device \notin Devices

BatchOf(op) == IF lastOp.op = op THEN Range(lastOp.batch) ELSE {}

Stored(namespace, name) ==
    \E c \in Range(claimAllocations) : c.namespace = namespace /\ c.name = name

----------------------------------------------------------------------------
(* Properties *)

\* C1: for a pod with claims and a network namespace, when RunPodSandbox
\* returns without error every device of this driver in the pod's allocation
\* results is absent from the root namespace and present in the pod's
\* namespace; and every device is in exactly one namespace.
C1_RunMovesEveryDevice ==
    /\ \A pod \in Pods :
          (HookDone("RunPodSandbox", pod) /\ lastOp.err = NilErr) =>
             \A d \in OwnDevices(pod) :
                d \notin links[Root] /\ d \in links[NetnsOf(pod)]
    /\ \A d \in Devices : Cardinality({n \in AllNs : d \in links[n]}) = 1

C3_RunContinuesAfterFailure ==
    \A pod \in Pods :
       HookDone("RunPodSandbox", pod) =>
          /\ Range(lastOp.attempted) = OwnDevices(pod)
          /\ (OwnDevices(pod) \ lastOp.moved # {} => lastOp.err # NilErr)
          /\ lastOp.moved \subseteq links[NetnsOf(pod)]

\* C4: for a device with an associated RDMA link, after a successful
\* RunPodSandbox both the RDMA link and the net device are in the pod
\* namespace; success is never reported with the net device left in root.
C4_RdmaAndNetdevMoveTogether ==
    \A pod \in Pods :
       (HookDone("RunPodSandbox", pod) /\ lastOp.err = NilErr) =>
          \A d \in OwnDevices(pod) \cap Devices :
             RdmaOf[d] # "" =>
                /\ d \in links[NetnsOf(pod)]
                /\ RdmaOf[d] \in rdmaLinks[NetnsOf(pod)]

\* C5: detach is safe to repeat and returns the RDMA link first: after
\* StopPodSandbox no device of the pod and no RDMA link of such a device is
\* left in the pod namespace, and detaching again (link already in root, or
\* namespace path gone) completes without error.
C5_DetachRepeatable ==
    \A pod \in Pods :
       HookDone("StopPodSandbox", pod) =>
          /\ lastOp.err = NilErr
          /\ \A d \in OwnDevices(pod) \cap Devices :
                /\ d \notin links[NetnsOf(pod)]
                /\ nsDetachNetdev(Kernel, NetnsOf(pod), d).err = NilErr
                /\ RdmaOf[d] # "" =>
                      /\ RdmaOf[d] \notin rdmaLinks[NetnsOf(pod)]
                      /\ nsDetachRdmadev(Kernel, NetnsOf(pod), RdmaOf[d]).err = NilErr

C7_PrepareNeverFailsBatch ==
    lastOp.op = "PrepareResourceClaims" =>
       IF lastOp.batch = <<>>
       THEN lastOp.resultNil /\ lastOp.err = NilErr
       ELSE /\ lastOp.err = NilErr
            /\ ~lastOp.resultNil
            /\ DOMAIN lastOp.result = {c.uid : c \in Range(lastOp.batch)}
            /\ \A c \in Range(lastOp.batch) :
                  IF CannotPrepare(c)
                  THEN lastOp.result[c.uid].Err # NilErr
                  ELSE /\ lastOp.result[c.uid].Err = NilErr
                       /\ Stored(c.namespace, c.name)

\* C8: preparing a claim whose allocation names, for this driver, a device
\* the host does not have returns a non-nil Err for that claim UID.
C8_UnknownDeviceIsAnError ==
    \A c \in BatchOf("PrepareResourceClaims") :
       NamesUnknownDevice(c) =>
          \/ c.uid \notin DOMAIN lastOp.result
          \/ lastOp.result[c.uid].Err # NilErr

\* C9: a prepare of a claim with an unknown config field, an invalid config
\* or a missing device leaves no record of the claim: it is in neither store
\* and a later RunPodSandbox of its pod finds nothing to act on.
C9_FailedPrepareLeavesNoState ==
    \A c \in Claims :
       (CannotPrepare(c) /\ ~c.allocation.isNil) =>
          /\ ~Stored(c.namespace, c.name)
          /\ \A u \in DOMAIN podConfigStore :
                \A i \in DOMAIN podConfigStore[u] :
                   podConfigStore[u][i].Claim # [namespace |-> c.namespace,
                                                 name |-> c.name]

\* C10: after UnprepareResourceClaims the claim store holds no record of the
\* claim under any index and the pod-config store has no entry for the pods
\* it was reserved for.
C10_UnprepareRemovesClaim ==
    \A o \in BatchOf("UnprepareResourceClaims") :
       /\ ~Stored(o.namespace, o.name)
       /\ \A c \in Claims :
             (c.namespace = o.namespace /\ c.name = o.name) =>
                \A i \in 1..Len(c.reservedFor) :
                   c.reservedFor[i].resource = "pods" =>
                      c.reservedFor[i].uid \notin DOMAIN podConfigStore

C12_NormalizeRoundTrip ==
    /\ pci.step = "resolved" => pci.out = pci.addr
    /\ pci.step = "named" =>
          \A b \in PCIAddresses :
             NormalizePCIAddress(b) = pci.name => b = pci.addr
    /\ pci.step = "looked-up" =>
          LET prefixed == /\ Len(pci.name) >= 5
                          /\ SubSeq(pci.name, 1, 5) = <<"n", "e", "t", "1", "-">>
              dashes == Cardinality({i \in 6..Len(pci.name) : pci.name[i] = "-"})
          IN  (~prefixed \/ dashes # 3) => pci.out = <<>>

----------------------------------------------------------------------------
(* Vocabulary of the properties of ValidateConfig, stated on the raw        *)
(* document                                                                 *)

IsJson == vcfg.raw.kind = "json" /\ ~vcfg.raw.isNil
DocRoutes ==
    IF IsJson /\ "routes" \in DOMAIN vcfg.raw.doc THEN vcfg.raw.doc.routes ELSE <<>>
DocInterface ==
    IF IsJson /\ "interface" \in DOMAIN vcfg.raw.doc
    THEN vcfg.raw.doc.interface ELSE <<>>
DocAddresses ==
    IF "addresses" \in DOMAIN DocInterface THEN DocInterface.addresses ELSE <<>>
DocGateway(o) == IF "gateway" \in DOMAIN o THEN o.gateway ELSE <<>>
DocScope(o) == IF "scope" \in DOMAIN o THEN o.scope ELSE 0
DocDestination(o) == IF "destination" \in DOMAIN o THEN o.destination ELSE <<>>

IsIPString(str) == Len(str) = 1 /\ str[1] \in DOMAIN IPTable
IsCIDRString(str) ==
    /\ Len(str) = 3 /\ str[1] \in DOMAIN IPTable /\ str[2] = "/"
    /\ str[3] \in DOMAIN BitsTable

\* the config was parsed and checked field by field
Checked == vcfg.step = "validated" /\ IsJson /\ ~vcfg.out.configNil

HasErr(msg, route) ==
    \E j \in 1..Len(vcfg.err) : vcfg.err[j].msg = msg /\ vcfg.err[j].route = route

\* the violations of the i-th route, by kind
RouteViolations(o) ==
    {k \in {"destination", "scope", "gateway"} :
        \/ k = "destination" /\ ~IsIPString(DocDestination(o))
                             /\ ~IsCIDRString(DocDestination(o))
        \/ k = "scope" /\ DocScope(o) \notin {0, 253}
        \/ k = "gateway" /\ IF DocGateway(o) = <<>> THEN DocScope(o) # 253
                            ELSE ~IsIPString(DocGateway(o))}

\* C13: a route without a gateway is accepted only with scope link (253);
\* without a gateway and with scope universe (0, also when the scope is
\* omitted) it is an error; a gateway that is present must parse as an IP;
\* a scope other than 0 and 253 is an error.
C13_GatewayAndScope ==
    Checked =>
       \A i \in 1..Len(DocRoutes) :
          LET o == DocRoutes[i]
              idx == IndexString[i]
          IN  /\ DocGateway(o) = <<>> =>
                    /\ HasErr("must have a gateway", idx) <=> DocScope(o) # 253
                    /\ DocScope(o) # 253 => vcfg.err # <<>>
              /\ DocGateway(o) # <<>> =>
                    /\ ~HasErr("must have a gateway", idx)
                    /\ HasErr("invalid gateway IP", idx)
                          <=> ~IsIPString(DocGateway(o))
              /\ HasErr("invalid scope", idx) <=> DocScope(o) \notin {0, 253}

\* C13 witness: a link-scope route without gateway that is accepted next to
\* a route without gateway and without scope that is not.
C13_Witness ==
    /\ Checked
    /\ Len(DocRoutes) = 2
    /\ DocGateway(DocRoutes[1]) = <<>> /\ DocScope(DocRoutes[1]) = 253
    /\ DocGateway(DocRoutes[2]) = <<>> /\ "scope" \notin DOMAIN DocRoutes[2]
    /\ ~HasErr("must have a gateway", "0")
    /\ HasErr("must have a gateway", "1")

\* C14: for a config that parses, the error mentions every invalid address
\* and every invalid route by index, one message per violation.
C14_AllErrorsCollected ==
    Checked =>
       /\ \A k \in 1..Len(DocAddresses) :
             ~IsCIDRString(DocAddresses[k]) =>
                \E j \in 1..Len(vcfg.err) :
                   /\ vcfg.err[j].msg = "invalid IP in CIDR format"
                   /\ vcfg.err[j].value = DocAddresses[k]
       /\ \A i \in 1..Len(DocRoutes) :
             RouteViolations(DocRoutes[i]) # {} =>
                \E j \in 1..Len(vcfg.err) : vcfg.err[j].route = IndexString[i]
       /\ Len(vcfg.err) =
             Cardinality({k \in 1..Len(DocAddresses) :
                             ~IsCIDRString(DocAddresses[k])})
             + Cardinality({<<i, k>> \in (1..Len(DocRoutes))
                                         \X {"destination", "scope", "gateway"} :
                               k \in RouteViolations(DocRoutes[i])})

\* C14 witness: two invalid addresses and two invalid routes, four messages
\* or more.
C14_Witness ==
    /\ Checked
    /\ Len(DocAddresses) = 2
    /\ \A k \in 1..2 : ~IsCIDRString(DocAddresses[k])
    /\ Len(DocRoutes) = 2
    /\ \A i \in 1..2 : RouteViolations(DocRoutes[i]) # {}
    /\ Len(vcfg.err) >= 4

\* C15: a config with a field that is not in the schema gives a nil config
\* and an error that names the field; a nil or empty raw extension gives
\* (nil, nil).
C15_UnknownFieldRejected ==
    vcfg.step = "validated" =>
       /\ (IsJson /\ UnknownFields(vcfg.raw.doc) # {}) =>
             /\ vcfg.out.configNil
             /\ \E j \in 1..Len(vcfg.err) :
                   /\ vcfg.err[j].msg = "failed to unmarshal strict JSON data"
                   /\ UnknownFields(vcfg.raw.doc) \subseteq vcfg.err[j].value
       /\ (vcfg.raw.isNil \/ vcfg.raw.kind \in {"nil", "empty"}) =>
             vcfg.out.configNil /\ vcfg.err = <<>>

\* C15 witness: the route object {"gateways": ...} of the tests.
C15_Witness ==
    /\ vcfg.step = "validated"
    /\ IsJson
    /\ <<"routes", "0", "gateways">> \in UnknownFields(vcfg.raw.doc)
    /\ vcfg.out.configNil
    /\ vcfg.err # <<>>

\* C16: a config whose interface MTU is negative is reported as a
\* validation error.
C16_NegativeMTURejected ==
    (/\ vcfg.step = "validated"
     /\ "mtu" \in DOMAIN DocInterface) =>
        (DocInterface.mtu < 0 => vcfg.err # <<>>)

----------------------------------------------------------------------------
(* Vocabulary of the properties of the routes, stated on the configuration  *)
(* and on the routes of the namespace                                       *)

\* a route that ValidateConfig accepts
ValidRoute(rc) ==
    /\ IsIPString(rc.Destination) \/ IsCIDRString(rc.Destination)
    /\ rc.Scope \in {0, 253}
    /\ IF rc.Gateway = <<>> THEN rc.Scope = 253 ELSE IsIPString(rc.Gateway)

\* the network a destination names: a bare IP is a host route
NetOfDest(dest) ==
    IF IsCIDRString(dest)
    THEN [ip |-> Mask(IPTable[dest[1]], BitsTable[dest[3]]),
          bits |-> BitsTable[dest[3]]]
    ELSE [ip |-> IPTable[dest[1]], bits |-> 32]

TableOf(rc) == IF rc.Table = 0 THEN 254 ELSE rc.Table

RoutesFor(rc) ==
    {e \in net.routes : e.dst = NetOfDest(rc.Destination) /\ e.table = TableOf(rc)}

\* the preferred source of a route, when it has one, is an address of the
\* interface
SourceOk(rc) ==
    rc.Source # <<>> =>
       /\ IsIPString(rc.Source)
       /\ IPTable[rc.Source[1]] \in {a.ip : a \in net.addrs}

\* the kernel has no reason to refuse the route: its gateway is on a link
\* route of the config or of an address, its source is an address
Installable(rc, config) ==
    /\ rc.Gateway # <<>> =>
          /\ rc.Scope = 0
          /\ \/ \E a \in net.addrs :
                   Mask(IPTable[rc.Gateway[1]], a.bits) = Mask(a.ip, a.bits)
             \/ \E i \in 1..Len(config) :
                   /\ ValidRoute(config[i])
                   /\ SourceOk(config[i])
                   /\ config[i].Gateway = <<>>
                   /\ config[i].Table = 0
                   /\ LET n == NetOfDest(config[i].Destination)
                      IN  Mask(IPTable[rc.Gateway[1]], n.bits) = n.ip
    /\ SourceOk(rc)

Reached == net.nsFound /\ net.linkFound

\* C17: every route that ValidateConfig accepts (and the kernel has no
\* reason to refuse) is on the interface after applyRoutingConfig, a route
\* with a bare IP as destination included; when all routes are such, no
\* error is returned.
C17_ValidRoutesInstalled ==
    (Reached /\ net.runs["routes"] >= 1) =>
       LET config == net.input.routes
           ok(rc) == ValidRoute(rc) /\ Installable(rc, config)
       IN  /\ \A i \in 1..Len(config) : ok(config[i]) => RoutesFor(config[i]) # {}
           /\ (\A i \in 1..Len(config) : ok(config[i])) => net.err["routes"] = <<>>

\* C18: every link-scope (253) route is attempted before any universe-scope
\* (0) route, whatever the order of the route list.
C18_LinkScopeFirst ==
    \A i, j \in 1..Len(net.attempted) :
       i < j => ~(net.attempted[i].Scope = 0 /\ net.attempted[j].Scope = 253)

\* C18 witness: a list with a universe-scope route before a link-scope
\* route has been applied.
C18_Witness ==
    /\ Reached
    /\ net.runs["routes"] >= 1
    /\ Len(net.input.routes) = 2
    /\ net.input.routes[1].Scope = 0
    /\ net.input.routes[2].Scope = 253
    /\ Len(net.attempted) = 2

\* C19: applying the same configuration a second time returns no error and
\* leaves the routes, neighbors and rules as they were after the first
\* time, with exactly one route for each configured destination.
C19_ApplyIdempotent ==
    \A op \in NetOps :
       (/\ Reached
        /\ net.op = op
        /\ net.runs[op] >= 2
        /\ op = "routes" =>
              \A i \in 1..Len(net.input.routes) :
                 /\ ValidRoute(net.input.routes[i])
                 /\ Installable(net.input.routes[i], net.input.routes)
        /\ op = "neighbors" =>
              \A i \in 1..Len(net.input.neighbors) :
                 /\ IsIPString(net.input.neighbors[i].Destination)
                 /\ net.input.neighbors[i].HardwareAddr \in MACs
        /\ op = "rules" =>
              \A i \in 1..Len(net.input.rules) :
                 /\ net.input.rules[i].Source \in {<<>>, Cidr8}
                 /\ net.input.rules[i].Destination
                       \in {<<>>, <<"10.0.5.0", "/", "24">>})
       => /\ net.err[op] = <<>>
          /\ NetKernel = net.prev.K
          /\ op = "routes" =>
                \A i \in 1..Len(net.input.routes) :
                   Cardinality(RoutesFor(net.input.routes[i])) = 1

----------------------------------------------------------------------------
\* what the refreshes found, read off the record of the passes

\* pass i has got past its send, if it had one
PassOver(i) == i < Len(inv.log) \/ inv.step # "sending"

PreviousHadDevices(i) == i > 1 /\ inv.log[i - 1].had

EmittedPasses == {i \in 1..Len(inv.log) : inv.log[i].emitted}

\* C20: a refresh puts its snapshot on the notification channel iff it found
\* devices or the refresh before it did, so the change from some devices to
\* none is notified once; every snapshot sent is taken once; a refresh that
\* finds nothing after a refresh that found nothing sends nothing and leaves
\* the device store as it was.
C20_NotifyOnDevicesOrTransition ==
    inv.step # "idle" =>
      /\ \A i \in 1..Len(inv.log) :
            LET e == inv.log[i] IN
            /\ PassOver(i) => (e.emitted <=> (e.had \/ PreviousHadDevices(i)))
            /\ (~e.had /\ ~PreviousHadDevices(i)) => (~e.emitted /\ e.kept)
      /\ pub.calls - pub.fromClosed = Cardinality(EmittedPasses)
      /\ inv.log # <<>> =>
            /\ inv.log[Len(inv.log)].had = (Len(inv.pass.devices) > 0)
            /\ inv.log[Len(inv.log)].kept =
                  (inv.pass.storeAfter = inv.pass.storeBefore)
            /\ inv.deviceStore = inv.pass.storeAfter
            /\ (inv.log[Len(inv.log)].emitted /\ pub.fromClosed = 0)
                  => pub.lastIn = inv.pass.devices

\* devices, then none (notified), then none again (silent)
C20_Witness ==
    /\ inv.step = "select"
    /\ Len(inv.log) = 3
    /\ inv.log[1].had /\ inv.log[1].emitted
    /\ ~inv.log[2].had /\ inv.log[2].emitted
    /\ ~inv.log[3].had /\ ~inv.log[3].emitted /\ inv.log[3].kept
    /\ pub.calls = 2 /\ pub.fromClosed = 0 /\ pub.lastIn = <<>>

\* the model stops the inventory loop after MaxRefresh passes
OutOfPasses == inv.step = "wait" /\ Len(inv.log) = MaxRefresh

\* C27: once the process-wide context is cancelled, the inventory loop
\* returns and closes its notification channel and the publisher loop
\* returns, whatever the two loops were doing at that moment.
C27_ShutdownCompletes ==
    inv.ctxDone ~> ((inv.closed /\ pub.step = "stopped") \/ OutOfPasses)

\* the devices of the last publication
PublishedDevices == pub.last.resources.Pools[nodeName].Slices[1].Devices

\* the interfaces of the routes without destination that name a gateway
DefaultRouteInterfaces ==
    {inv.routes[i].Link : i \in {j \in 1..Len(inv.routes) :
                                    /\ inv.routes[j].Dst = ""
                                    /\ inv.routes[j].Gw # ""}}

OnDefaultRoute(device) ==
    /\ "ifName" \in DOMAIN device.Attributes
    /\ device.Attributes["ifName"] \in DefaultRouteInterfaces

\* C21: no device of a snapshot of the inventory and no published device is
\* the interface that carries the default route of the host, whatever the
\* selector of the driver.
C21_DefaultRouteInterfaceExcluded ==
    /\ \A i \in 1..Len(inv.pass.devices) : ~OnDefaultRoute(inv.pass.devices[i])
    /\ \A i \in 1..Len(PublishedDevices) : ~OnDefaultRoute(PublishedDevices[i])

\* the attributes a device keeps while its interface is away
KeptWhileAway ==
    {"ifName", "mac", "encapsulation", "alias", "state", "type", "ipv4",
     "ipv6", "tcFilterNames", "tcxProgramNames", "ebpf", "sriov", "sriovVfs",
     "virtual"}

\* the network controllers of the last pass whose interface is not in the
\* root namespace and that the device store knew before the pass
AwayAndKnown ==
    {i \in 1..Len(inv.pass.pci) :
        /\ inv.pass.pci[i].Class.ID[1] = "0" /\ inv.pass.pci[i].Class.ID[2] = "2"
        /\ inv.pass.pci[i].net = ""
        /\ NormalizePCIAddress(inv.pass.pci[i].Address)
              \in DOMAIN inv.pass.storeBefore}

\* C22: a network controller whose interface cannot be resolved at a refresh
\* and that the device store holds from the refresh before is still in the
\* snapshot under the same name, with the stored values of the interface
\* name, MAC, encapsulation, alias, state, type, addresses, TC and TCX names,
\* eBPF, SR-IOV and virtual attributes; refresh after refresh, since the
\* snapshot becomes the store of the next one.
C22_MergeOnMissing ==
    \A i \in AwayAndKnown :
       LET name == NormalizePCIAddress(inv.pass.pci[i].Address)
           prev == inv.pass.storeBefore[name].Attributes
       IN  /\ \E k \in 1..Len(inv.pass.devices) :
                 /\ inv.pass.devices[k].Name = name
                 /\ \A a \in KeptWhileAway \cap DOMAIN prev :
                       /\ a \in DOMAIN inv.pass.devices[k].Attributes
                       /\ inv.pass.devices[k].Attributes[a] = prev[a]
           /\ name \in DOMAIN inv.pass.storeAfter
           /\ inv.pass.storeAfter[name].Attributes["rdma"]
                 = inv.pass.pci[i].rdma

\* the interface away at two refreshes in a row: the store before the third
\* pass holds the merged device (a MAC, but no MTU, which is not carried
\* over), and the third snapshot still shows the values of the first
C22_Witness ==
    /\ Len(inv.log) = 3
    /\ AwayAndKnown # {}
    /\ \E i \in AwayAndKnown :
          LET name == NormalizePCIAddress(inv.pass.pci[i].Address)
              prev == inv.pass.storeBefore[name].Attributes
          IN  /\ "mac" \in DOMAIN prev /\ "mtu" \notin DOMAIN prev
              /\ \E k \in 1..Len(inv.pass.devices) :
                    /\ inv.pass.devices[k].Name = name
                    /\ inv.pass.devices[k].Attributes["ifName"] = "eth1"
                    /\ inv.pass.devices[k].Attributes["mac"]
                          = "02:00:00:00:00:01"
                    /\ inv.pass.devices[k].Attributes["ipv4"] = {"10.0.5.8"}

Selected(devices) ==
    IF pub.celProgram = "" THEN devices
    ELSE SelectSeq(devices, LAMBDA d : d.Attributes["rdma"] = TRUE)

\* C24: a publish call that fails does not end the publisher, which goes on
\* to take the next snapshot and to publish it; every snapshot received makes
\* one publish call, for one pool under the name of the node with one slice
\* that holds the devices of the snapshot the selector lets through.
C24_PublisherSurvivesFailure ==
    [][/\ (pub'.step = "stopped" /\ pub.step # "stopped") => inv.ctxDone
       /\ pub'.calls - pub'.fromClosed = Cardinality(EmittedPasses)'
       /\ inv.step = "sending" /\ inv'.step # "sending"
             => /\ pub'.calls = pub.calls + 1
                /\ pub'.lastIn = inv.pending
       /\ pub'.calls \in {pub.calls, pub.calls + 1}
       /\ DOMAIN pub'.last.resources.Pools = {nodeName}
       /\ Len(pub'.last.resources.Pools[nodeName].Slices) = 1
       /\ PublishedDevices' = Selected(pub.lastIn)']_vars

\* a publish call failed and the one after it published a snapshot with
\* devices
C24_Witness ==
    /\ pub.calls >= 2
    /\ pub.prevErr # NilErr
    /\ pub.fromClosed = 0
    /\ pub.lastIn # <<>>
    /\ PublishedDevices = Selected(pub.lastIn)

\* C28: two refreshes in a row never start less than the minimum interval
\* apart, however many Sync calls arrive in between.
C28_MinIntervalBetweenRefreshes ==
    \A i \in 2..Len(inv.log) : inv.log[i].gap >= minInterval

\* C26: every call of PrepareResourceClaims, UnprepareResourceClaims,
\* RunPodSandbox, StopPodSandbox, RemovePodSandbox or CreateContainer adds one
\* latency observation for its method and adds one to exactly one of the
\* counters success, failed and noop of its method.
C26_OneObservationPerCall ==
    [][(lastOp' # lastOp /\ lastOp'.op \in Methods)
          => LET m == lastOp'.op IN
             /\ metrics'.latency[m] = metrics.latency[m] + 1
             /\ \E s \in Statuses :
                   metrics'.requestsTotal[m] =
                      [metrics.requestsTotal[m] EXCEPT ![s] = @ + 1]]_vars

\* C29: the effector is invoked at most once for a device of a pod: a
\* RunPodSandbox for a pod does not attempt a device again that the
\* RunPodSandbox before it, for the same pod, has attempted.
C29_EffectorAtMostOnce ==
    [][(/\ lastOp.op = "RunPodSandbox"
        /\ lastOp'.op = "RunPodSandbox"
        /\ lastOp'.pod = lastOp.pod)
          => Range(lastOp.attempted) \cap Range(lastOp'.attempted) = {}]_vars

\* the paths that the configs of the pod of the last call name
ReferencedPaths ==
    LET configs == IF lastOp.pod \in DOMAIN podConfigStore
                   THEN podConfigStore[lastOp.pod] ELSE [i \in {} |-> 0]
    IN  UNION {{configs[i].RDMADevice.DevChars[k].Path :
                   k \in 1..Len(configs[i].RDMADevice.DevChars)} :
               i \in DOMAIN configs}

GrantedDevices == lastOp.adjust.Linux.Devices

\* C25: the adjustment that CreateContainer returns lists every character
\* device path that the configs of the pod name once and only once, however
\* many interfaces of the pod name the same path.
C25_NoDuplicateDevices ==
    lastOp.op = "CreateContainer" =>
       /\ \A i, j \in 1..Len(GrantedDevices) :
             GrantedDevices[i].Path = GrantedDevices[j].Path => i = j
       /\ {GrantedDevices[i].Path : i \in 1..Len(GrantedDevices)}
             = ReferencedPaths

\* two interfaces of the pod with the same character device, one grant
C25_Witness ==
    /\ lastOp.op = "CreateContainer"
    /\ lastOp.pod = "test-pod"
    /\ "test-pod" \in DOMAIN podConfigStore
    /\ DOMAIN podConfigStore["test-pod"] = {"eth0", "eth1"}
    /\ podConfigStore["test-pod"]["eth0"].RDMADevice.DevChars = <<Uverbs0>>
    /\ podConfigStore["test-pod"]["eth1"].RDMADevice.DevChars = <<Uverbs0>>
    /\ Len(GrantedDevices) = 1
    /\ GrantedDevices[1].Path = "/dev/infiniband/uverbs0"

\* the steps of the effector routines that work on the namespace of the pod
\* or change the namespace of the thread
NamespaceSteps ==
    {"NewHandleAt:netns.Set", "NewHandleAt:socket", "NewHandleAt:moveBack",
     "RdmaLinkSetNsFd", "nhNs.RdmaLinkByName", "nhNs.RdmaLinkSetNsFd",
     "nhNs.LinkByName", "nhNs.RouteAdd"}

\* C30: every step of an effector routine that works on another network
\* namespace or switches to it is taken by a goroutine locked to its OS
\* thread, and the thread is back in its namespace when it is unlocked.
C30_NamespaceWorkOnLockedThread ==
    /\ thr.step \in NamespaceSteps => thr.locked
    /\ thr.step = "NewHandleAt:unlock" => thr.ns[thr.thread] = thr.cur

\* what the routines do keep: the namespace of a thread changes only while
\* the goroutine is locked to it, the thread is back where it was when it is
\* unlocked, and no thread is left outside the root namespace
SwitchOnlyWhenLocked ==
    thr.step # "idle" =>
       /\ (\E t \in Threads : thr.ns[t] # RootNs) => thr.locked
       /\ thr.step = "NewHandleAt:unlock" => thr.ns[thr.thread] = thr.cur
       /\ thr.step \in {"NewHandleAt:netns.Set", "NewHandleAt:socket",
                        "NewHandleAt:moveBack"} => thr.locked

\* C31: every namespace file descriptor and netlink handle that an effector
\* routine opened is closed when the routine has returned, whether it
\* returned an error or not.
C31_AllClosedOnReturn ==
    (thr.step = "ready" /\ thr.calls > 0) => thr.open = {}

\* the key of the pod in the pod-netns map of the inventory
NetnsKey(pod) == <<pod.namespace, "/", pod.name>>

ReservedForPod(c, uid) ==
    \E i \in 1..Len(c.reservedFor) :
       /\ c.reservedFor[i].resource = "pods"
       /\ c.reservedFor[i].apiGroup = ""
       /\ c.reservedFor[i].uid = uid

\* C33: when PrepareResourceClaims has returned, the claims of the batch
\* are in the claim store, and the lookup of the store
\* by a pod UID returns a stored claim iff the claim is reserved for a pod
\* with that UID; a consumer that is not a pod gives no index entry.
C33_PodUIDLookup ==
    /\ lastOp.err = NilErr =>
          \A c \in BatchOf("PrepareResourceClaims") :
             c \in Range(claimAllocations)
    /\ \A c \in Range(claimAllocations) : \A pod \in Pods :
          (c \in ByIndex(claimAllocations, podUIDIndex, <<pod.uid>>))
             <=> ReservedForPod(c, pod.uid)

\* a stored claim with a deployment of UID pod-uid-1 among its consumers:
\* found for pod-uid-2, not for pod-uid-1
C33_Witness ==
    /\ lastOp.op = "PrepareResourceClaims"
    /\ lastOp.err = NilErr
    /\ \E c \in Range(claimAllocations) :
          /\ c.name = "claim-b"
          /\ \E i \in 1..Len(c.reservedFor) :
                c.reservedFor[i].resource = "deployments"
                   /\ c.reservedFor[i].uid = "pod-uid-1"
          /\ c \in ByIndex(claimAllocations, podUIDIndex, <<"pod-uid-2">>)
          /\ c \notin ByIndex(claimAllocations, podUIDIndex, <<"pod-uid-1">>)

\* the network controllers of the last pass whose interface sysfs names but
\* whose link netlink does not find, and that the device store knew before
LinkErrorAndKnown ==
    {i \in 1..Len(inv.pass.pci) :
        /\ inv.pass.pci[i].Class.ID[1] = "0" /\ inv.pass.pci[i].Class.ID[2] = "2"
        /\ inv.pass.pci[i].net # ""
        /\ ~inv.pass.pci[i].link.found
        /\ NormalizePCIAddress(inv.pass.pci[i].Address)
              \in DOMAIN inv.pass.storeBefore}

\* C34: a device whose interface name sysfs gives but whose link the netlink
\* query does not find is in the snapshot with the mutable attributes the
\* device store held for it, not without them.
C34_LinkErrorFallsBack ==
    \A i \in LinkErrorAndKnown :
       LET name == NormalizePCIAddress(inv.pass.pci[i].Address)
           prev == inv.pass.storeBefore[name].Attributes
       IN  \E k \in 1..Len(inv.pass.devices) :
              /\ inv.pass.devices[k].Name = name
              /\ \A a \in (KeptWhileAway \ {"ifName"}) \cap DOMAIN prev :
                    /\ a \in DOMAIN inv.pass.devices[k].Attributes
                    /\ inv.pass.devices[k].Attributes[a] = prev[a]


----------------------------------------------------------------------------
(* Per-item errors of the route, neighbor and rule steps                    *)

\* a neighbor whose address or hardware address does not parse
NeighborUnparsable(n) ==
    ParseIP(n.Destination) = NoIP \/ ~ParseMAC(n.HardwareAddr).ok

\* a rule whose source or destination is given and does not parse
RuleUnparsable(r) ==
    \/ r.Source # <<>> /\ ~ParseCIDR(r.Source).ok
    \/ r.Destination # <<>> /\ ~ParseCIDR(r.Destination).ok

\* the namespace holds the route, or the kernel answered that the
\* destination is taken in the table of the route (EEXIST)
RouteSucceeded(route) ==
    /\ ParseCIDR(route.Destination).ok
    /\ \E e \in net.routes :
          /\ e.dst = ParseCIDR(route.Destination).dst
          /\ \/ e.table = (IF route.Table = 0 THEN RT_TABLE_MAIN
                            ELSE route.Table)
             \/ /\ e.table = RT_TABLE_MAIN
                /\ e.gw = ParseIP(route.Gateway)
                /\ e.scope = route.Scope
                /\ e.src = (IF route.Source # <<>> THEN ParseIP(route.Source)
                            ELSE NoIP)

\* the positions of a list whose item satisfies P
Positions(list, P(_)) == {i \in 1..Len(list) : P(list[i])}

RouteFailed(route) == ~RouteSucceeded(route)

\* C35: a failing item does not end the route, neighbor or rule step: every
\* item of the list is attempted, every item that did not fail is in the
\* namespace afterwards, each failing item adds one error to the joined
\* error, and the error is nil when no item failed
C35_ItemFailureDoesNotAbort ==
    /\ (net.op = "neighbors" /\ net.nsFound /\ net.linkFound) =>
          LET cfg == net.input.neighbors
          IN  /\ Len(net.err["neighbors"])
                    = Cardinality(Positions(cfg, NeighborUnparsable))
              /\ \A i \in 1..Len(cfg) :
                    ~NeighborUnparsable(cfg[i]) =>
                        \E e \in net.neighbors :
                            e.ip = ParseIP(cfg[i].Destination)
    /\ (net.op = "rules" /\ net.nsFound) =>
          LET cfg == net.input.rules
          IN  /\ Len(net.err["rules"])
                    = Cardinality(Positions(cfg, RuleUnparsable))
              /\ \A i \in 1..Len(cfg) :
                    ~RuleUnparsable(cfg[i]) =>
                        \E e \in net.rules :
                            /\ e.priority = cfg[i].Priority
                            /\ e.table = cfg[i].Table
                            /\ cfg[i].Source # <<>> =>
                                  e.src = ParseCIDR(cfg[i].Source).dst
                            /\ cfg[i].Destination # <<>> =>
                                  e.dst = ParseCIDR(cfg[i].Destination).dst
    /\ (net.op = "routes" /\ net.nsFound /\ net.linkFound) =>
          /\ Len(net.attempted) = Len(net.input.routes)
          /\ \A r \in Range(net.input.routes) : r \in Range(net.attempted)
          /\ Len(net.err["routes"])
                >= Cardinality(Positions(net.attempted, RouteFailed))
          /\ Len(net.err["routes"]) <= Len(net.attempted)
          /\ net.err["routes"] = <<>> =>
                \A r \in Range(net.input.routes) : RouteSucceeded(r)

\* a neighbor list whose first item does not parse and whose later item is
\* in the namespace, with one error returned
C35_Witness ==
    /\ net.op = "neighbors" /\ net.nsFound /\ net.linkFound
    /\ Len(net.input.neighbors) >= 2
    /\ NeighborUnparsable(net.input.neighbors[1])
    /\ ~NeighborUnparsable(net.input.neighbors[2])
    /\ Len(net.err["neighbors"]) = 1
    /\ \E e \in net.neighbors :
          e.ip = ParseIP(net.input.neighbors[2].Destination)

----------------------------------------------------------------------------
(* Start (driver.go): the order in which the fields of the NetworkDriver    *)
(* are set and its goroutines are started, and the runtime hooks that the   *)
(* NRI stub's goroutine delivers meanwhile.                                 *)

MaxHooks == 2

\* the runtime hooks that use np.netdb
Hooks == {"Synchronize", "RunPodSandbox", "StopPodSandbox"}

\* the NetworkDriver after the options are applied: netdb is the zero value
PluginStart ==
    [step |-> "kubeletplugin.Start", netdb |-> "nil", nri |-> "none",
     goroutines |-> {}, hooks |-> <<>>]

\* os.MkdirAll, kubeletplugin.Start and the wait for the registration
KubeletPluginStart ==
    /\ plugin.step = "kubeletplugin.Start"
    /\ \E ok \in BOOLEAN :
          plugin' = [plugin EXCEPT !.step = IF ok THEN "stub.New"
                                            ELSE "failed"]
    /\ UNCHANGED <<driverVars, pci, vcfg, net, inv, pub, thr>>

\* stub.New(plugin, nriOpts...)
StubNew ==
    /\ plugin.step = "stub.New"
    /\ \E ok \in BOOLEAN :
          plugin' = [plugin EXCEPT !.step = IF ok THEN "go nriPlugin.Run"
                                            ELSE "failed"]
    /\ UNCHANGED <<driverVars, pci, vcfg, net, inv, pub, thr>>

\* go func() { plugin.nriPlugin.Run(ctx) }()
GoNriPluginRun ==
    /\ plugin.step = "go nriPlugin.Run"
    /\ plugin.nri # "panicked"
    /\ plugin' = [plugin EXCEPT !.step = "inventory.New", !.nri = "running"]
    /\ UNCHANGED <<driverVars, pci, vcfg, net, inv, pub, thr>>

\* plugin.netdb = inventory.New()
InventoryNew ==
    /\ plugin.step = "inventory.New"
    /\ plugin.nri # "panicked"
    /\ plugin' = [plugin EXCEPT !.step = "go netdb.Run", !.netdb = "DB"]
    /\ UNCHANGED <<driverVars, pci, vcfg, net, inv, pub, thr>>

\* go func() { plugin.netdb.Run(ctx) }()
GoNetdbRun ==
    /\ plugin.step = "go netdb.Run"
    /\ plugin.nri # "panicked"
    /\ plugin' = [plugin EXCEPT !.step = "go PublishResources",
                                !.goroutines = @ \cup {"netdb.Run"}]
    /\ UNCHANGED <<driverVars, pci, vcfg, net, inv, pub, thr>>

\* go plugin.PublishResources(ctx); return plugin, nil
GoPublishResources ==
    /\ plugin.step = "go PublishResources"
    /\ plugin.nri # "panicked"
    /\ plugin' = [plugin EXCEPT !.step = "returned",
                                !.goroutines = @ \cup {"PublishResources"}]
    /\ UNCHANGED <<driverVars, pci, vcfg, net, inv, pub, thr>>

\* whether a hook reaches its use of np.netdb: Synchronize for a pod with a
\* network namespace, RunPodSandbox for a pod with claims and a network
\* namespace, StopPodSandbox always (the deferred RemovePodNetns)
UsesNetdb(hook, podHasNetns, podHasClaims) ==
    IF hook = "Synchronize" THEN podHasNetns
    ELSE IF hook = "RunPodSandbox" THEN podHasClaims /\ podHasNetns
    ELSE TRUE

\* a hook that the NRI goroutine delivers; a method of a nil *DB that touches
\* its fields panics, and the panic ends the process
Hook ==
    /\ plugin.nri = "running"
    /\ Len(plugin.hooks) < MaxHooks
    /\ \E hook \in Hooks, podHasNetns \in BOOLEAN, podHasClaims \in BOOLEAN :
          LET uses == UsesNetdb(hook, podHasNetns, podHasClaims)
          IN  plugin' = [plugin EXCEPT
                  !.hooks = Append(@, [hook |-> hook, usesNetdb |-> uses,
                                       netdb |-> plugin.netdb]),
                  !.nri = IF uses /\ plugin.netdb = "nil" THEN "panicked"
                          ELSE @]
    /\ UNCHANGED <<driverVars, pci, vcfg, net, inv, pub, thr>>

InitStart ==
    /\ DriverInit
    /\ pci = PciIdle /\ vcfg = CfgIdle /\ net = NetIdle /\ inv = InvIdle
    /\ pub = PubIdle /\ thr = ThrIdle
    /\ plugin = PluginStart

NextStart ==
    \/ KubeletPluginStart
    \/ StubNew
    \/ GoNriPluginRun
    \/ InventoryNew
    \/ GoNetdbRun
    \/ GoPublishResources
    \/ Hook

SpecStart == InitStart /\ [][NextStart]_vars

\* C37: every runtime hook that uses the inventory finds it created: the
\* netdb field is set before the first hook that dereferences it runs
C37_InventoryCreatedBeforeHooks ==
    \A i \in DOMAIN plugin.hooks :
        plugin.hooks[i].usesNetdb => plugin.hooks[i].netdb = "DB"


\* C38: the publisher publishes only what the inventory emitted: once the
\* inventory loop has ended and closed its channel while the context is
\* live, no step publishes a further slice
C38_NoPublishAfterInventoryEnded ==
    [][(inv.step # "idle" /\ inv.closed /\ ~inv.ctxDone)
          => pub'.calls = pub.calls]_vars


----------------------------------------------------------------------------
(* The device store as the consumer of a snapshot finds it                  *)

NilDevice == [Name |-> "<nil>"]

\* DB.GetDevice
GetDevice(deviceStore, deviceName) ==
    IF deviceName \in DOMAIN deviceStore
    THEN [device |-> deviceStore[deviceName], exists |-> TRUE]
    ELSE [device |-> NilDevice, exists |-> FALSE]

\* the names a device of the host can have
HostDeviceNames ==
    {NormalizePCIAddress(a) : a \in {AddrNic0, AddrNic1, AddrGpu}}

\* C39: while a snapshot is handed to its consumer, GetDevice finds every
\* device of the snapshot with the attributes the snapshot gives it, and
\* finds no device under a name that is not in the snapshot
C39_StoreMatchesSentSnapshot ==
    inv.step = "sending" =>
        /\ \A i \in 1..Len(inv.pending) :
              LET got == GetDevice(inv.deviceStore, inv.pending[i].Name)
              IN  /\ got.exists
                  /\ got.device.Attributes = inv.pending[i].Attributes
        /\ \A n \in HostDeviceNames :
              (\A i \in 1..Len(inv.pending) : inv.pending[i].Name # n)
                  => ~GetDevice(inv.deviceStore, n).exists

\* a snapshot of one device is being sent after the store held two: the
\* device of the snapshot is found, the other name is not
C39_Witness ==
    /\ inv.step = "sending"
    /\ Len(inv.pending) = 1
    /\ DOMAIN inv.pass.storeBefore
          = HostDeviceNames \ {NormalizePCIAddress(AddrGpu)}
    /\ GetDevice(inv.deviceStore, inv.pending[1].Name).exists
    /\ \E n \in DOMAIN inv.pass.storeBefore :
          ~GetDevice(inv.deviceStore, n).exists


----------------------------------------------------------------------------
(* The devices a prepare reports                                            *)

\* the {request, pool, device} triples of the results of a claim that name
\* this driver
OwnTriples(c) ==
    {[Requests |-> <<c.allocation.results[i].request>>,
      PoolName |-> c.allocation.results[i].pool,
      DeviceName |-> c.allocation.results[i].device] :
        i \in {j \in 1..Len(c.allocation.results) :
                  c.allocation.results[j].driver = DriverName}}

\* C40: the device list a prepare returns for a claim has one triple for
\* each allocation result of this driver and none for a result of another
\* driver
C40_PreparedDevicesAreOwn ==
    (lastOp.op = "PrepareResourceClaims" /\ lastOp.err = NilErr) =>
        \A c \in BatchOf("PrepareResourceClaims") :
            (c.uid \in DOMAIN lastOp.result /\ ~c.allocation.isNil) =>
                /\ Range(lastOp.result[c.uid].Devices) = OwnTriples(c)
                /\ Len(lastOp.result[c.uid].Devices)
                      = Cardinality(OwnTriples(c))


----------------------------------------------------------------------------
(* Requests for a refresh                                                   *)

\* the loop leaves its select before the max interval is over
EarlyWakeUp ==
    inv.step = "select" /\ inv'.step = "wait" /\ inv.timer < maxInterval

\* C36: Sync never blocks, at most one request is pending however often Sync
\* is called, a wake-up before the max interval consumes the pending request,
\* and a pending request lets the waiting loop go on at once
C36_SyncCoalesces ==
    /\ [](inv.step # "idle" => ENABLED Sync)
    /\ [](inv.step # "idle" => inv.syncCh \in {0, 1})
    /\ [][EarlyWakeUp => (inv.syncCh = 1 /\ inv'.syncCh = 0)]_vars
    /\ []((inv.step = "select" /\ inv.syncCh = 1) => ENABLED SyncRequested)

\* the loop waits after a pass, long before the max interval, and a request
\* is pending
C36_Witness ==
    /\ inv.step = "select"
    /\ inv.syncCh = 1
    /\ inv.timer < maxInterval
    /\ Len(inv.log) >= 1
    /\ ~inv.ctxDone

====
